---- MODULE Spec2Model ----
(***************************************************************************)
(* Model of the LLM deployment service (src/app.py): request               *)
(* normalisation, the deployment ledger and its create/update decision,    *)
(* the repository publisher contract and the evaluation notifier.          *)
(*                                                                         *)
(* Python strings are sequences of one-character strings, so that          *)
(* str.replace, the "in" substring test and str.split are computed.        *)
(* JSON values are tagged records: [t |-> "str", s |-> chars],             *)
(* [t |-> "int", i |-> n], [t |-> "list", l |-> seq], [t |-> "dict",       *)
(* d |-> function], [t |-> "null"].  A JSON object is a function whose     *)
(* DOMAIN is the set of keys that are present.                             *)
(***************************************************************************)
EXTENDS Integers, Sequences, FiniteSets, TLC

\* ------------------------------------------------------------------ bounds
MaxRequests == 2     \* requests served in one behaviour
MaxClock    == 2     \* last value of the wall clock (seconds)

\* ------------------------------------------------------------ JSON values
JNull     == [t |-> "null"]
JStr(s)   == [t |-> "str", s |-> s]
JInt(n)   == [t |-> "int", i |-> n]
JList(l)  == [t |-> "list", l |-> l]
JDict(d)  == [t |-> "dict", d |-> d]
EmptyDict == [x \in {} |-> JNull]

IsStr(v)  == v.t = "str"
IsInt(v)  == v.t = "int"
IsList(v) == v.t = "list"
IsDict(v) == v.t = "dict"

\* Python truthiness ("not data[field]")
Truthy(v) ==
    CASE v.t = "null" -> FALSE
      [] v.t = "str"  -> v.s # <<>>
      [] v.t = "int"  -> v.i # 0
      [] v.t = "list" -> v.l # <<>>
      [] v.t = "dict" -> DOMAIN v.d # {}

\* len(v) and iteration are defined; for anything else they raise TypeError
Sized(v) == v.t \in {"str", "list", "dict"}

\* dict.get(k, default), dict.setdefault(k, v), dict[k] = v
Get(d, k, default) == IF k \in DOMAIN d THEN d[k] ELSE default
SetDefault(d, k, v) == IF k \in DOMAIN d THEN d ELSE (k :> v) @@ d
Put(d, k, v) == (k :> v) @@ d

\* ---------------------------------------------------------------- strings
\* s.startswith(p) at offset i (1-based)
MatchAt(s, i, p) == i + Len(p) - 1 <= Len(s) /\ SubSeq(s, i, i + Len(p) - 1) = p

\* "p in s"
Contains(s, p) == \E i \in 1..(Len(s) + 1) : MatchAt(s, i, p)

\* s.replace(old, new): every non-overlapping occurrence, left to right
RECURSIVE Replace(_, _, _)
Replace(s, old, new) ==
    IF s = <<>> THEN <<>>
    ELSE IF MatchAt(s, 1, old)
         THEN new \o Replace(SubSeq(s, Len(old) + 1, Len(s)), old, new)
         ELSE <<Head(s)>> \o Replace(Tail(s), old, new)

\* str.lower() on the letters used in task ids
LowerChar(c) ==
    CASE c = "R" -> "r"
      [] c = "C" -> "c"
      [] OTHER   -> c
Lower(s) == [i \in 1..Len(s) |-> LowerChar(s[i])]

Digit == {"0", "1", "2", "3", "4", "5", "6", "7", "8", "9"}
DigitVal(c) ==
    CASE c = "0" -> 0 [] c = "1" -> 1 [] c = "2" -> 2 [] c = "3" -> 3
      [] c = "4" -> 4 [] c = "5" -> 5 [] c = "6" -> 6 [] c = "7" -> 7
      [] c = "8" -> 8 [] c = "9" -> 9
DigitChar(n) ==
    CASE n = 0 -> "0" [] n = 1 -> "1" [] n = 2 -> "2" [] n = 3 -> "3"
      [] n = 4 -> "4" [] n = 5 -> "5" [] n = 6 -> "6" [] n = 7 -> "7"
      [] n = 8 -> "8" [] n = 9 -> "9"

\* str.isdigit()
IsDigits(s) == s # <<>> /\ \A i \in 1..Len(s) : s[i] \in Digit

\* value of a string of decimal digits
RECURSIVE DigitsVal(_)
DigitsVal(s) ==
    IF s = <<>> THEN 0
    ELSE 10 * DigitsVal(SubSeq(s, 1, Len(s) - 1)) + DigitVal(s[Len(s)])

\* str(n) for n >= 0
RECURSIVE IntToStr(_)
IntToStr(n) ==
    IF n < 10 THEN <<DigitChar(n)>>
    ELSE IntToStr(n \div 10) \o <<DigitChar(n % 10)>>

\* int(v): [ok, i]; ValueError / TypeError is ok = FALSE
IntOf(v) ==
    CASE v.t = "int" -> [ok |-> TRUE, i |-> v.i]
      [] v.t = "str" ->
           IF IsDigits(v.s) THEN [ok |-> TRUE, i |-> DigitsVal(v.s)]
           ELSE IF Len(v.s) > 1 /\ v.s[1] = "-" /\ IsDigits(Tail(v.s))
                THEN [ok |-> TRUE, i |-> 0 - DigitsVal(Tail(v.s))]
                ELSE [ok |-> FALSE, i |-> 0]
      [] OTHER -> [ok |-> FALSE, i |-> 0]

\* str(v) as used on the task field
StrOf(v) ==
    CASE v.t = "str" -> v.s
      [] v.t = "int" -> IF v.i >= 0 THEN IntToStr(v.i) ELSE <<"-">> \o IntToStr(0 - v.i)
      [] v.t = "null" -> <<"N", "o", "n", "e">>
      [] v.t = "list" -> <<"[", "]">>
      [] v.t = "dict" -> <<"{", "}">>

\* ------------------------------------------------------------ configuration
USER_SECRET       == <<"k", "e", "y">>
DefaultEmail      == <<"s", "@", "e", ".", "c">>
DefaultEvalUrl    == <<"h", "/", "e", "v">>
FreshNonce        == <<"u", "u", "i", "d">>
DefaultCheckText  == <<"t", ">", "0">>

\* ----------------------------------------------------- RequestValidator
Round2Patterns ==
    { <<"r","o","u","n","d","2">>, <<"r","o","u","n","d","-","2">>,
      <<"r","o","u","n","d","_","2">>, <<"r","2","-">>, <<"-","r","2">>,
      <<"r","2","_">> }
Round1Patterns ==
    { <<"r","o","u","n","d","1">>, <<"r","o","u","n","d","-","1">>,
      <<"r","o","u","n","d","_","1">>, <<"r","1","-">>, <<"-","r","1">>,
      <<"r","1","_">> }

\* validation messages; MsgHas gives the substring tests made on the
\* lower-cased text by the two endpoints
MsgMissing(f)    == [kind |-> "missing", field |-> f]   \* "Missing essential field: <f>"
MsgChecksArray   == [kind |-> "checks_array"]           \* "Checks must be an array"
MsgCheckProps(i) == [kind |-> "check_props", index |-> i]
                         \* "Check at index <i> must have either 'js' or 'description' property"
MsgCheckType(i)  == [kind |-> "check_type", index |-> i]
                         \* "Check at index <i> must be a string or object"
MsgValid         == [kind |-> "valid"]                  \* "Valid request"
MsgHas(m, word) ==
    CASE m.kind = "missing" -> word \in {"missing", "field"}
      [] OTHER              -> FALSE

\* lines 86-95: hoist the nested task object
HoistTask(data) ==
    IF "task" \in DOMAIN data /\ IsDict(data["task"])
    THEN LET td == data["task"].d
             d1 == Put(data, "brief", Get(td, "brief", JStr(<<>>)))
             d2 == Put(d1, "checks", Get(td, "checks", JList(<<>>)))
             d3 == Put(d2, "attachments", Get(td, "attachments", JList(<<>>)))
             d4 == Put(d3, "evaluation_url",
                       Get(td, "evaluation_url", Get(data, "evaluation_url", JStr(<<>>))))
         IN  Put(d4, "task", Get(td, "id", data["task"]))
    ELSE data

\* lines 97-102: defaults
ApplyDefaults(data) ==
    LET d1 == SetDefault(data, "email", JStr(DefaultEmail))
        d2 == SetDefault(d1, "round", JInt(1))
        d3 == SetDefault(d2, "nonce", JStr(FreshNonce))
        d4 == SetDefault(d3, "evaluation_url", JStr(DefaultEvalUrl))
    IN  SetDefault(d4, "attachments", JList(<<>>))

\* lines 104-108: first essential field that is absent or falsy, or "" if none
EssentialFields == <<"task", "brief", "checks">>
FieldMissing_AbsentOnly(data, f) == f \notin DOMAIN data
FieldMissing(data, f) == f \notin DOMAIN data \/ ~Truthy(data[f])
FirstMissing(data) ==
    IF \E i \in 1..3 : FieldMissing(data, EssentialFields[i])
    THEN EssentialFields[CHOOSE i \in 1..3 :
            /\ FieldMissing(data, EssentialFields[i])
            /\ \A j \in 1..(i - 1) : ~FieldMissing(data, EssentialFields[j])]
    ELSE ""

\* lines 110-114
DefaultSecret(data) ==
    IF "secret" \notin DOMAIN data \/ ~Truthy(data["secret"])
    THEN Put(data, "secret", JStr(USER_SECRET))
    ELSE data

\* lines 116-124: coerce an explicit round to an integer, None on failure
CoerceRound_NoCoercion(data) ==
    IF "round" \in DOMAIN data /\ data["round"] # JNull /\ ~IsInt(data["round"])
    THEN Put(data, "round", JNull)
    ELSE data
CoerceRound(data) ==
    IF "round" \in DOMAIN data /\ data["round"] # JNull
    THEN IF ~IsInt(data["round"])
         THEN IF IntOf(data["round"]).ok
              THEN Put(data, "round", JInt(IntOf(data["round"]).i))
              ELSE Put(data, "round", JNull)
         ELSE data
    ELSE data

\* lines 126-139: round detection from the task name
InferRound(data) ==
    IF "round" \notin DOMAIN data \/ data["round"] = JNull
    THEN LET task_name == Lower(StrOf(Get(data, "task", JStr(<<>>))))
         IN  IF \E p \in Round2Patterns : Contains(task_name, p)
             THEN Put(data, "round", JInt(2))
             ELSE IF \E p \in Round1Patterns : Contains(task_name, p)
                  THEN Put(data, "round", JInt(1))
                  ELSE Put(data, "round", JInt(1))
    ELSE data

\* lines 141-144
ClampRound_Keep(data) == data
ClampRound(data) ==
    IF data["round"] \notin {JInt(1), JInt(2)} THEN Put(data, "round", JInt(1)) ELSE data

\* lines 146-150 (email is a string or null in the modelled requests)
RepairEmail(data) ==
    LET email == Get(data, "email", JStr(<<>>))
    IN  IF ~Truthy(email) \/ ~Contains(email.s, <<"@">>) \/ ~Contains(email.s, <<".">>)
        THEN Put(data, "email", JStr(DefaultEmail))
        ELSE data

\* lines 160-176: one check, [ok, msg, check]
NormalizeCheck(check, i) ==
    IF IsStr(check)
    THEN [ok |-> TRUE, msg |-> MsgValid,
          check |-> JDict([description |-> check,
                           js |-> JStr(DefaultCheckText \o <<"/", "/">> \o check.s)])]
    ELSE IF IsDict(check)
         THEN IF "js" \notin DOMAIN check.d /\ "description" \notin DOMAIN check.d
              THEN [ok |-> FALSE, msg |-> MsgCheckProps(i), check |-> check]
              ELSE [ok |-> TRUE, msg |-> MsgValid, check |-> check]
         ELSE [ok |-> FALSE, msg |-> MsgCheckType(i), check |-> check]

\* lines 152-178: [ok, msg, data]
NormalizeChecks(data) ==
    IF ~IsList(data["checks"])
    THEN [ok |-> FALSE, msg |-> MsgChecksArray, data |-> data]
    ELSE LET cs0 == data["checks"].l
             cs  == IF Len(cs0) = 0 THEN <<JStr(DefaultCheckText)>> ELSE cs0
             d1  == Put(data, "checks", JList(cs))
             res == [i \in 1..Len(cs) |-> NormalizeCheck(cs[i], i - 1)]
         IN  IF \E i \in 1..Len(cs) : ~res[i].ok
             THEN [ok |-> FALSE,
                   msg |-> res[CHOOSE i \in 1..Len(cs) :
                                  ~res[i].ok /\ \A j \in 1..(i - 1) : res[j].ok].msg,
                   data |-> d1]
             ELSE [ok |-> TRUE, msg |-> MsgValid,
                   data |-> Put(d1, "checks", JList([i \in 1..Len(cs) |-> res[i].check]))]

\* RequestValidator.validate_request: [ok, msg, data] where data is the
\* dictionary as the call leaves it (it is mutated in place)
validate_request(data0) ==
    LET d1 == ApplyDefaults(HoistTask(data0))
    IN  IF FirstMissing(d1) # ""
        THEN [ok |-> FALSE, msg |-> MsgMissing(FirstMissing(d1)), data |-> d1]
        ELSE NormalizeChecks(RepairEmail(ClampRound(InferRound(CoerceRound(DefaultSecret(d1))))))

\* ------------------------------------------------------------------ state
Threads == {1, 2}

VARIABLES
    deployment_state,   \* in-memory ledger: deployment key -> entry
    state_file,         \* deployment_state.json: [kind, doc]
    repos,              \* repositories of the account, oldest first
    now,                \* wall clock (whole seconds) when it was last read
    github_ok,          \* the GitHub client authenticated at start-up
    openai_client,      \* the OpenAI client object was built at start-up
    th,                 \* per request thread: position and locals
    nreq                \* requests received so far

vars == <<deployment_state, state_file, repos, now, github_ok, openai_client, th, nreq>>

NoKey    == <<>>
EmptyLedger == [k \in {} |-> EmptyDict]

IdleThread ==
    [ pc        |-> "idle",
      op        |-> "none",
      body      |-> EmptyDict,        \* request body as received
      data      |-> EmptyDict,        \* the handler's dictionary 'data'
      norm      |-> EmptyDict,        \* the dictionary validate_request worked on
      dry       |-> FALSE,            \* validate_only query flag
      status    |-> 0,                \* HTTP status of the response
      code      |-> "",               \* 'code' field of the response
      key       |-> NoKey,            \* deployment_key
      stored    |-> EmptyDict,        \* stored_info (EmptyDict = None)
      branch    |-> "",               \* publisher operation chosen
      repo_data |-> EmptyDict,        \* result of the publisher
      target    |-> <<>>,             \* URL the notifier posts to
      attempt   |-> 0,                \* notification attempts made
      last      |-> "",               \* outcome of the last attempt
      slept     |-> <<>>,             \* time.sleep calls of the notifier
      notified  |-> "",               \* notify_evaluation result: "", "True", "False"
      attachments |-> <<>>,           \* result of process_attachments
      exc       |-> "",               \* exception that left process_attachments
      gen_calls |-> 0,                \* generation calls made
      transports |-> <<>>,            \* the transports those calls went through
      doc       |-> "",               \* outcome of generate_app_code
      payload   |-> EmptyDict,        \* body of the response
      pub_calls |-> <<>>,             \* publisher operations invoked
      made      |-> <<>>,             \* repositories this request created
      writes    |-> 0,                \* ledger entries this request has written
      wrote_last |-> FALSE,           \* the last assignment to the ledger was this request's
      named_last |-> FALSE,           \* the last assignment of a repo_name was this request's
      assigned |-> {},                \* fields of the ledger entry this request assigned
      flushed   |-> "",               \* how save_deployment_state ended
      buffer    |-> EmptyLedger,      \* what json.dump put into the open file object
      pre_state |-> EmptyLedger,      \* ledger when the request arrived
      pre_file  |-> [kind |-> "none", doc |-> EmptyLedger],
      pre_repos |-> <<>> ]

Init ==
    /\ deployment_state = EmptyLedger
    /\ state_file = [kind |-> "none", doc |-> EmptyLedger]
    /\ repos = <<>>
    /\ now = 1
    /\ github_ok \in BOOLEAN
    /\ openai_client \in BOOLEAN
    /\ th = [t \in Threads |-> IdleThread]
    /\ nreq = 0

SetTh(t, r) == th' = [th EXCEPT ![t] = r]

\* the response is sent and the handler returns
Respond(r, status, code) == [r EXCEPT !.pc = "done", !.status = status, !.code = code]

\* ------------------------------------------------------------- ledger keys
R2A == <<"-","r","o","u","n","d","2","a">>
R2B == <<"-","r","o","u","n","d","2","b">>
R2  == <<"-","r","o","u","n","d","2">>

\* lines 1107 and 618: the base task name
BaseTaskName(task) == Replace(Replace(Replace(task, R2A, <<>>), R2B, <<>>), R2, <<>>)

\* line 1108
DeploymentKey(email, task) == email \o <<"-">> \o BaseTaskName(task)

\* ------------------------------------------------- deploy: request boundary
\* lines 1035-1036 and 947-948: a supplied, non-empty secret that is wrong
SecretRejected_AnySupplied(body) ==
    /\ "secret" \in DOMAIN body
    /\ body["secret"] # JStr(USER_SECRET)
SecretRejected(body) ==
    /\ "secret" \in DOMAIN body
    /\ Truthy(body["secret"])
    /\ body["secret"] # JStr(USER_SECRET)

\* lines 1049-1057: status and code of a failed validation in deploy
DeployErrorStatus(msg) ==
    IF MsgHas(msg, "secret") THEN [status |-> 401, code |-> "INVALID_SECRET"]
    ELSE IF MsgHas(msg, "missing") \/ MsgHas(msg, "field")
         THEN [status |-> 400, code |-> "MISSING_REQUIRED_FIELD"]
         ELSE [status |-> 422, code |-> "VALIDATION_ERROR"]

\* lines 1076-1077 and 971-972: the counts of the summary can be taken
SummaryBuilt(data) ==
    /\ Sized(Get(data, "checks", JList(<<>>)))
    /\ Sized(Get(data, "attachments", JList(<<>>)))

\* lines 877-884: GitHubManager() never raises, the object always exists
github_manager == TRUE

\* lines 1008-1088 of deploy, up to the first external call
DeployReceive(r0, body, dry) ==
    LET v == validate_request(body)
        r1 == [r0 EXCEPT !.data = v.data, !.norm = v.data]     \* validated in place
    IN  IF DOMAIN body = {}
        THEN Respond(r0, 400, "EMPTY_REQUEST")
        ELSE IF SecretRejected(body)
        THEN IF IsStr(body["secret"])
             THEN Respond(r0, 401, "INVALID_SECRET")
             ELSE Respond(r0, 500, "DEPLOYMENT_ERROR")      \* data['secret'][:10]
        ELSE IF ~v.ok
        THEN Respond(r1, DeployErrorStatus(v.msg).status, DeployErrorStatus(v.msg).code)
        ELSE IF dry
        THEN IF SummaryBuilt(v.data)
             THEN Respond(r1, 200, "VALIDATION_SUCCESS")
             ELSE Respond(r1, 500, "DEPLOYMENT_ERROR")
        ELSE IF ~github_manager
        THEN Respond(r1, 500, "GITHUB_UNAVAILABLE")
        ELSE [r1 EXCEPT !.pc = "generate"]

NewRequest(op, body, dry) ==
    [IdleThread EXCEPT !.op = op, !.body = body, !.dry = dry,
                       !.pre_state = deployment_state,
                       !.pre_file = state_file,
                       !.pre_repos = repos]

CanReceive(t) == th[t].pc \in {"idle", "done"} /\ nreq < MaxRequests

Receive(t, body, dry) ==
    /\ CanReceive(t)
    /\ nreq' = nreq + 1
    /\ SetTh(t, DeployReceive(NewRequest("deploy", body, dry), body, dry))
    /\ UNCHANGED <<deployment_state, state_file, repos, now, github_ok, openai_client>>

\* lines 976-985: status and code of a failed validation in validate_only
ValidateErrorStatus(msg) ==
    IF MsgHas(msg, "secret") THEN [status |-> 401, code |-> "INVALID_SECRET"]
    ELSE IF MsgHas(msg, "missing")
         THEN [status |-> 400, code |-> "MISSING_FIELD"]
         ELSE [status |-> 422, code |-> "VALIDATION_ERROR"]

\* lines 928-992 of validate_only: validate_request runs on data.copy()
ValidateOnlyResponse(r0, body) ==
    LET v == validate_request(body)
        r1 == [r0 EXCEPT !.data = body, !.norm = v.data]
    IN  IF DOMAIN body = {}
        THEN Respond(r0, 400, "EMPTY_REQUEST")
        ELSE IF SecretRejected(body)
        THEN Respond(r0, 401, "INVALID_SECRET")
        ELSE IF v.ok
        THEN IF SummaryBuilt(body)                          \* the original, not the copy
             THEN Respond(r1, 200, "VALIDATION_SUCCESS")
             ELSE Respond(r1, 500, "INTERNAL_ERROR")
        ELSE Respond(r1, ValidateErrorStatus(v.msg).status, ValidateErrorStatus(v.msg).code)

ValidateOnly(t, body) ==
    /\ CanReceive(t)
    /\ nreq' = nreq + 1
    /\ SetTh(t, ValidateOnlyResponse(NewRequest("validate", body, FALSE), body))
    /\ UNCHANGED <<deployment_state, state_file, repos, now, github_ok, openai_client>>

\* --------------------------------------------------------- AttachmentHandler
\* the printable ASCII characters, from code point 32 (the double quote,
\* the backslash and the backtick are spelled out)
Printable ==
    << " ", "!", "quote", "#", "$", "%", "&", "'", "(", ")", "*", "+", ",", "-", ".", "/",
       "0", "1", "2", "3", "4", "5", "6", "7", "8", "9", ":", ";", "<", "=", ">", "?",
       "@", "A", "B", "C", "D", "E", "F", "G", "H", "I", "J", "K", "L", "M", "N", "O",
       "P", "Q", "R", "S", "T", "U", "V", "W", "X", "Y", "Z", "[", "backslash", "]", "^", "_",
       "backtick", "a", "b", "c", "d", "e", "f", "g", "h", "i", "j", "k", "l", "m", "n", "o",
       "p", "q", "r", "s", "t", "u", "v", "w", "x", "y", "z", "{", "|", "}", "~" >>

\* ord(c) of a printable character
Ord(c) == 31 + CHOOSE i \in 1..Len(Printable) : Printable[i] = c

\* str.encode('utf-8') of printable text
EncodeUtf8(s) == [i \in 1..Len(s) |-> Ord(s[i])]

\* the base64 alphabet, values 0..63
B64Alphabet ==
    << "A", "B", "C", "D", "E", "F", "G", "H", "I", "J", "K", "L", "M", "N", "O", "P",
       "Q", "R", "S", "T", "U", "V", "W", "X", "Y", "Z", "a", "b", "c", "d", "e", "f",
       "g", "h", "i", "j", "k", "l", "m", "n", "o", "p", "q", "r", "s", "t", "u", "v",
       "w", "x", "y", "z", "0", "1", "2", "3", "4", "5", "6", "7", "8", "9", "+", "/" >>

IsB64Char(c) == \E i \in 1..64 : B64Alphabet[i] = c
B64Val(c) == (CHOOSE i \in 1..64 : B64Alphabet[i] = c) - 1

\* base64.b64decode(s) (binascii.a2b_base64, not strict), from position i:
\* characters outside the alphabet are dropped, complete padding ends the
\* input, an unfinished quad is an error; [ok, bytes]
RECURSIVE B64Loop(_, _, _, _, _, _)
B64Loop(s, i, quad_pos, leftchar, pads, out) ==
    IF i > Len(s)
    THEN [ok |-> quad_pos = 0, bytes |-> out]
    ELSE IF s[i] = "="
    THEN IF quad_pos >= 2 /\ quad_pos + pads + 1 >= 4
         THEN [ok |-> TRUE, bytes |-> out]
         ELSE B64Loop(s, i + 1, quad_pos, leftchar,
                      IF quad_pos >= 2 THEN pads + 1 ELSE pads, out)
    ELSE IF ~IsB64Char(s[i])
    THEN B64Loop(s, i + 1, quad_pos, leftchar, pads, out)
    ELSE LET v == B64Val(s[i])
         IN  CASE quad_pos = 0 -> B64Loop(s, i + 1, 1, v, 0, out)
               [] quad_pos = 1 -> B64Loop(s, i + 1, 2, v % 16, 0,
                                          Append(out, leftchar * 4 + v \div 16))
               [] quad_pos = 2 -> B64Loop(s, i + 1, 3, v % 4, 0,
                                          Append(out, leftchar * 16 + v \div 4))
               [] quad_pos = 3 -> B64Loop(s, i + 1, 0, 0, 0,
                                          Append(out, leftchar * 64 + v))

b64decode(s) == B64Loop(s, 1, 0, 0, 0, <<>>)

\* position of the first c in s, 0 when there is none
IndexOf(s, c) ==
    IF \E i \in 1..Len(s) : s[i] = c
    THEN CHOOSE i \in 1..Len(s) : s[i] = c /\ \A j \in 1..(i - 1) : s[j] # c
    ELSE 0

\* s.split(c, 1)
SplitOnce(s, c) ==
    IF IndexOf(s, c) = 0 THEN <<s>>
    ELSE <<SubSeq(s, 1, IndexOf(s, c) - 1), SubSeq(s, IndexOf(s, c) + 1, Len(s))>>

\* werkzeug's secure_filename on printable text: path separators become
\* blanks, blank-separated words are joined with "_", characters outside
\* [A-Za-z0-9_.-] are removed, leading and trailing "." and "_" are stripped
FilenameChar(c) == (IsB64Char(c) /\ c \notin {"+", "/"}) \/ c \in {"_", ".", "-"}

RECURSIVE JoinWords(_, _, _)
JoinWords(s, started, pending) ==     \* pending: a blank followed the last word
    IF s = <<>> THEN <<>>
    ELSE IF Head(s) \in {" ", "/"}
         THEN JoinWords(Tail(s), started, started)
         ELSE (IF pending THEN <<"_">> ELSE <<>>) \o <<Head(s)>>
              \o JoinWords(Tail(s), TRUE, FALSE)

RECURSIVE StripDots(_)
StripDots(s) ==
    IF s # <<>> /\ Head(s) \in {".", "_"} THEN StripDots(Tail(s))
    ELSE IF s # <<>> /\ s[Len(s)] \in {".", "_"} THEN StripDots(SubSeq(s, 1, Len(s) - 1))
    ELSE s

secure_filename(name) ==
    StripDots(SelectSeq(JoinWords(name, FALSE, FALSE), FilenameChar))

DataPrefix == <<"d", "a", "t", "a", ":">>
Base64Name == <<"b", "a", "s", "e", "6", "4">>

Skipped == [ok |-> FALSE, att |-> EmptyDict]

\* lines 190-233: one entry of the loop, [ok, att]; every exception raised
\* inside is caught at 227 or 231 and the entry is skipped
ProcessOne(attachment) ==
    IF ~IsDict(attachment)
    THEN Skipped                                \* 'url' not in ..., or the subscript, fails
    ELSE IF "url" \notin DOMAIN attachment.d \/ "name" \notin DOMAIN attachment.d
    THEN Skipped
    ELSE LET url  == attachment.d["url"]
             name == attachment.d["name"]
         IN  IF ~IsStr(url) THEN Skipped        \* no startswith: AttributeError
             ELSE IF ~MatchAt(url.s, 1, DataPrefix) THEN Skipped
             ELSE LET parts == SplitOnce(url.s, ",")
                  IN  IF Len(parts) # 2 THEN Skipped       \* unpacking raises ValueError
                      ELSE LET media_info == SplitOnce(Replace(parts[1], DataPrefix, <<>>), ";")
                               media_type == media_info[1]
                               encoding   == IF Len(media_info) = 2 THEN media_info[2] ELSE <<>>
                               decoded    == IF encoding = Base64Name
                                             THEN b64decode(parts[2])
                                             ELSE [ok |-> TRUE, bytes |-> EncodeUtf8(parts[2])]
                           IN  IF ~decoded.ok THEN Skipped         \* binascii.Error
                               ELSE IF ~IsStr(name) THEN Skipped   \* secure_filename: TypeError
                               ELSE [ok  |-> TRUE,
                                     att |-> [name          |-> secure_filename(name.s),
                                              content       |-> decoded.bytes,
                                              media_type    |-> media_type,
                                              original_name |-> name.s]]

\* lines 229, 233: 'continue' goes to the next entry
AfterSkip_Break(attachments, i) == Len(attachments) + 1
AfterSkip(attachments, i) == i + 1

RECURSIVE AttachLoop(_, _, _)
AttachLoop(attachments, i, processed) ==
    IF i > Len(attachments) THEN processed
    ELSE IF ProcessOne(attachments[i]).ok
         THEN AttachLoop(attachments, i + 1, Append(processed, ProcessOne(attachments[i]).att))
         ELSE AttachLoop(attachments, AfterSkip(attachments, i), processed)

\* AttachmentHandler.process_attachments: [exc, out]; exc names an exception
\* that leaves the call
process_attachments(attachments) ==
    IF ~Truthy(attachments) THEN [exc |-> "", out |-> <<>>]
    ELSE IF IsList(attachments) THEN [exc |-> "", out |-> AttachLoop(attachments.l, 1, <<>>)]
    ELSE IF Sized(attachments) THEN [exc |-> "", out |-> <<>>]   \* characters or keys: all skipped
    ELSE [exc |-> "TypeError", out |-> <<>>]                         \* a number cannot be iterated

\* ------------------------------------------------------ code generation
\* lines 308-410: the outcomes of the two transports, [calls, path, doc]
GenOutcomes ==
    IF openai_client
    THEN { [calls |-> 1, path |-> <<"client">>, doc |-> "generated"],
           \* the client call raised: one direct call from the handler at 347-349
           [calls |-> 2, path |-> <<"client", "direct">>, doc |-> "generated"],
           [calls |-> 2, path |-> <<"client", "direct">>, doc |-> "fallback"] }
    ELSE { [calls |-> 1, path |-> <<"direct">>, doc |-> "generated"],
           [calls |-> 1, path |-> <<"direct">>, doc |-> "fallback"] }

\* lines 248-264: the requirement list is built outside the try block;
\* "'querySelector' in js_check" raises TypeError unless js_check is a container
PromptBuilt(checks) ==
    \A i \in 1..Len(checks) :
        ( IsDict(checks[i]) /\ "description" \notin DOMAIN checks[i].d
                            /\ "js" \in DOMAIN checks[i].d )
        => Sized(checks[i].d["js"])

\* lines 1090-1094
DeployAttachments(data) ==
    IF "attachments" \in DOMAIN data /\ Truthy(data["attachments"])
    THEN process_attachments(data["attachments"])
    ELSE [exc |-> "", out |-> <<>>]

\* lines 1090-1103; an exception of process_attachments or generate_app_code
\* ends in the handler at 1196
Generate(t) ==
    /\ th[t].pc = "generate"
    /\ LET a == DeployAttachments(th[t].data)
           r == [th[t] EXCEPT !.attachments = a.out, !.exc = a.exc]
       IN  IF a.exc # ""
           THEN SetTh(t, Respond(r, 500, "DEPLOYMENT_ERROR"))
           ELSE IF PromptBuilt(r.data["checks"].l)
           THEN \E o \in GenOutcomes :
                   SetTh(t, [r EXCEPT !.pc = "lookup", !.gen_calls = o.calls,
                                      !.transports = o.path, !.doc = o.doc])
           ELSE SetTh(t, Respond([r EXCEPT !.doc = "raised"], 500, "DEPLOYMENT_ERROR"))
    /\ UNCHANGED <<deployment_state, state_file, repos, now, github_ok, openai_client, nreq>>

\* ------------------------------------------------------- ledger decision
\* lines 1112-1117, 1129, 1142: the publisher operation for a request
Resolve_NeverUpdate(round, stored_info) == "create"
Resolve_IgnoresRound(round, stored_info) ==
    IF stored_info # EmptyDict THEN "update" ELSE "create"
Resolve(round, stored_info) ==
    IF round = JInt(2)
    THEN IF stored_info # EmptyDict THEN "update" ELSE "create"
    ELSE "create"

\* lines 1107-1117
Lookup_SetDefault(t) ==
    /\ th[t].pc = "lookup"
    /\ LET r == th[t]
           task == r.data["task"]
       IN  IF ~IsStr(task)
           THEN /\ SetTh(t, Respond(r, 500, "DEPLOYMENT_ERROR"))
                /\ UNCHANGED deployment_state
           ELSE LET key == DeploymentKey(r.data["email"].s, task.s)
                    stored_info == Get(deployment_state, key, EmptyDict)
                IN  /\ SetTh(t, [r EXCEPT !.pc = "publish", !.key = key,
                                          !.stored = stored_info,
                                          !.branch = Resolve(r.data["round"], stored_info)])
                    /\ deployment_state' = SetDefault(deployment_state, key, EmptyDict)
    /\ UNCHANGED <<state_file, repos, now, github_ok, openai_client, nreq>>
Lookup(t) ==
    /\ th[t].pc = "lookup"
    /\ LET r == th[t]
           task == r.data["task"]
       IN  IF ~IsStr(task)
           THEN SetTh(t, Respond(r, 500, "DEPLOYMENT_ERROR"))    \* data['task'].replace
           ELSE LET key == DeploymentKey(r.data["email"].s, task.s)
                    stored_info == Get(deployment_state, key, EmptyDict)
                IN  SetTh(t, [r EXCEPT !.pc = "publish", !.key = key,
                                       !.stored = stored_info,
                                       !.branch = Resolve(r.data["round"], stored_info)])
    /\ UNCHANGED <<deployment_state, state_file, repos, now, github_ok, openai_client, nreq>>

\* ----------------------------------------------------------- GitHubManager
RangeOf(q) == {q[i] : i \in 1..Len(q)}

\* line 538
RepoName(task_id, timestamp) == task_id \o <<"-">> \o IntToStr(timestamp)

\* lines 624-629: the repository name without its timestamp suffix
RepoBase(name) ==
    IF Contains(name, <<"-">>)
    THEN LET last == CHOOSE i \in 1..Len(name) :
                        name[i] = "-" /\ \A j \in (i + 1)..Len(name) : name[j] # "-"
         IN  IF IsDigits(SubSeq(name, last + 1, Len(name)))
             THEN SubSeq(name, 1, last - 1)
             ELSE name
    ELSE name

\* lines 618-634: first match of the newest-first listing, <<>> if none
SearchRepos(rs, task_id) ==
    LET base_task_id == BaseTaskName(task_id)
        hits == {i \in 1..Len(rs) : RepoBase(rs[i]) = base_task_id}
    IN  IF hits = {} THEN <<>>
        ELSE rs[CHOOSE i \in hits : \A j \in hits : j <= i]

PubResult(exc, rs, repo_data, made, ops) ==
    [exc |-> exc, repos |-> rs, repo_data |-> repo_data, made |-> made, ops |-> ops]

\* lines 532-597: the outcomes of create_repository(task_id, ...) when
\* time.time() returns timestamp
create_repository(task_id, timestamp) ==
    IF ~github_ok
    THEN { PubResult("ValueError", repos, EmptyDict, <<>>, <<"create">>) }
    ELSE LET repo_name == RepoName(task_id, timestamp)
             added == Append(repos, repo_name)
         IN  { PubResult("Exception", repos, EmptyDict, <<>>, <<"create">>) }
               \cup
             ( IF repo_name \in RangeOf(repos) THEN {}      \* the name is taken
               ELSE { \* a commit after create_repo failed: the repository stays
                      PubResult("Exception", added, EmptyDict, <<repo_name>>, <<"create">>),
                      PubResult("", added, [repo_name |-> repo_name],
                                <<repo_name>>, <<"create">>) } )

\* lines 640-698: the located repository is updated in place; ops is the
\* trace of publisher operations so far
UpdateInPlace(target, ops) ==
    { PubResult("Exception", repos, EmptyDict, <<>>, ops),
      PubResult("", repos, [repo_name |-> target, updated |-> TRUE], <<>>, ops) }

\* lines 616-638: name search, then creation when nothing matches
UpdateBySearch(task_id, timestamp) ==
    { PubResult("Exception", repos, EmptyDict, <<>>, <<"update", "search">>) }  \* get_repos failed
      \cup
    ( IF SearchRepos(repos, task_id) # <<>>
      THEN UpdateInPlace(SearchRepos(repos, task_id), <<"update", "search">>)
      ELSE { PubResult(IF c.exc = "" THEN "" ELSE "Exception",
                       c.repos, c.repo_data, c.made, <<"update", "search", "create">>)
               : c \in create_repository(task_id, timestamp) } )

\* lines 599-702: the outcomes of update_existing_repository(task_id, ..., repo_name)
update_existing_repository(task_id, repo_name, timestamp) ==
    IF ~github_ok
    THEN { PubResult("ValueError", repos, EmptyDict, <<>>, <<"update">>) }
    ELSE ( IF repo_name \in RangeOf(repos) THEN UpdateInPlace(repo_name, <<"update">>) ELSE {} )
           \cup UpdateBySearch(task_id, timestamp)       \* get_repo raised

\* lines 1176-1205: the response for an exception raised inside deploy
ExceptionStatus_Default200(exc) ==
    CASE exc = "ValueError" -> [status |-> 400, code |-> "VALIDATION_ERROR"]
      [] OTHER              -> [status |-> 200, code |-> "DEPLOYMENT_ERROR"]
ExceptionStatus(exc) ==
    CASE exc = "ValueError"       -> [status |-> 400, code |-> "VALIDATION_ERROR"]
      [] exc = "RequestException" -> [status |-> 502, code |-> "EXTERNAL_API_ERROR"]
      [] OTHER                    -> [status |-> 500, code |-> "DEPLOYMENT_ERROR"]

\* lines 1119-1124, 1131-1136, 1145-1150: the publisher call
PublisherCall(r, timestamp) ==
    IF r.branch = "update"
    THEN update_existing_repository(r.data["task"].s, r.stored["repo_name"], timestamp)
    ELSE create_repository(r.data["task"].s, timestamp)

\* the values a read of the clock can return: time does not run backwards
ClockReads == now..MaxClock

Publish(t) ==
    /\ th[t].pc = "publish"
    /\ \E timestamp \in ClockReads : \E res \in PublisherCall(th[t], timestamp) :
          /\ repos' = res.repos
          /\ now' = IF res.made # <<>> THEN timestamp ELSE now
          /\ LET r == [th[t] EXCEPT !.pub_calls = res.ops, !.made = res.made]
             IN  IF res.exc # ""
                 THEN SetTh(t, Respond(r, ExceptionStatus(res.exc).status,
                                          ExceptionStatus(res.exc).code))
                 ELSE SetTh(t, [r EXCEPT !.pc = "write", !.repo_data = res.repo_data])
    /\ UNCHANGED <<deployment_state, state_file, github_ok, openai_client, nreq>>

\* ------------------------------------------------------------ ledger write
\* line 1126 (update branch) and lines 1137-1140, 1151-1154 (create branches):
\* the first assignment to the ledger
LedgerEntry_TaskAsName(r, ledger, timestamp) ==
    IF r.branch = "update"
    THEN Put(ledger[r.key], "repo_name", r.repo_data["repo_name"])
    ELSE [repo_name |-> r.data["task"].s, created_at |-> timestamp]
LedgerEntry_KeepExisting(r, ledger, timestamp) ==
    IF r.key \in DOMAIN ledger
    THEN ledger[r.key]
    ELSE [repo_name |-> r.repo_data["repo_name"], created_at |-> timestamp]
LedgerEntry(r, ledger, timestamp) ==
    IF r.branch = "update"
    THEN Put(ledger[r.key], "repo_name", r.repo_data["repo_name"])
    ELSE [repo_name |-> r.repo_data["repo_name"], created_at |-> timestamp]

\* the request t has just assigned to the ledger: it is the last writer, and
\* the last to assign repo_name when named
Wrote(t, r, named) ==
    th' = [u \in Threads |->
             IF u = t THEN [r EXCEPT !.wrote_last = TRUE,
                                     !.named_last = IF named THEN TRUE ELSE @]
             ELSE [th[u] EXCEPT !.wrote_last = FALSE,
                                !.named_last = IF named THEN FALSE ELSE @]]

\* the create branches read the clock and store a whole entry; the update
\* branch stores repo_name into the entry found under the key and goes on
\* to line 1127
WriteLedger(t) ==
    /\ th[t].pc = "write"
    /\ IF th[t].branch = "update"
       THEN /\ now' = now
            /\ deployment_state' =
                  Put(deployment_state, th[t].key, LedgerEntry(th[t], deployment_state, now))
            /\ Wrote(t, [th[t] EXCEPT !.pc = "stamp", !.assigned = {"repo_name"}], TRUE)
       ELSE \E timestamp \in ClockReads :
              /\ now' = timestamp
              /\ deployment_state' =
                    Put(deployment_state, th[t].key,
                        LedgerEntry(th[t], deployment_state, timestamp))
              /\ Wrote(t, [th[t] EXCEPT !.pc = "save", !.writes = @ + 1,
                                         !.assigned = {"repo_name", "created_at"}], TRUE)
    /\ UNCHANGED <<state_file, repos, github_ok, openai_client, nreq>>

\* line 1127: updated_at goes into the entry that is under the key now
StampLedger(t) ==
    /\ th[t].pc = "stamp"
    /\ \E timestamp \in ClockReads :
          /\ now' = timestamp
          /\ deployment_state' =
                Put(deployment_state, th[t].key,
                    Put(deployment_state[th[t].key], "updated_at", timestamp))
    /\ Wrote(t, [th[t] EXCEPT !.pc = "save", !.writes = @ + 1,
                               !.assigned = @ \cup {"updated_at"}], FALSE)
    /\ UNCHANGED <<state_file, repos, github_ok, openai_client, nreq>>

\* lines 898-903: the outcomes of save_deployment_state(), [flush, file]
save_deployment_state ==
    { [flush |-> "ok",          file |-> [kind |-> "ok", doc |-> deployment_state]],
      [flush |-> "open_failed", file |-> state_file],
      \* open(..., 'w') truncated the file, then json.dump raised
      [flush |-> "dump_failed", file |-> [kind |-> "partial", doc |-> EmptyLedger]] }

\* ------------------------------------------------------ EvaluationNotifier
max_retries  == 5
retry_delays_linear == <<1, 2, 3, 4, 5>>
retry_delays_FromTwo == <<2, 4, 8, 16, 32>>
retry_delays == <<1, 2, 4, 8, 16>>
CallbackPath       == <<"/", "e", "v">>           \* '/evaluation_callback'
CallbackPathRound2 == <<"/", "e", "v", "2">>      \* '/evaluation_callback_round2'

\* lines 823-826
NotifyTarget(evaluation_url, round) ==
    IF round = JInt(2)
    THEN Replace(evaluation_url, CallbackPath, CallbackPathRound2)
    ELSE evaluation_url

\* lines 902-903 and 1157-1158: the exception of a failed flush is logged
\* inside save_deployment_state; the handler goes on to the notifier
AfterFlush_FailHard(r, flush) ==
    IF flush = "ok"
    THEN [r EXCEPT !.pc = "notify", !.flushed = flush,
                   !.target = NotifyTarget(r.data["evaluation_url"].s, r.data["round"])]
    ELSE Respond([r EXCEPT !.flushed = flush], 500, "DEPLOYMENT_ERROR")
AfterFlush(r, flush) ==
    [r EXCEPT !.pc = "notify", !.flushed = flush,
              !.target = NotifyTarget(r.data["evaluation_url"].s, r.data["round"])]

\* lines 1128, 1141, 1155: flush, then the notifier is entered
Save_NotifyUnflushed(t) ==
    /\ th[t].pc = "save"
    /\ SetTh(t, [th[t] EXCEPT !.pc = "notify",
                   !.target = NotifyTarget(th[t].data["evaluation_url"].s, th[t].data["round"])])
    /\ UNCHANGED <<deployment_state, state_file, repos, now, github_ok, openai_client, nreq>>
Save(t) ==
    /\ th[t].pc = "save"
    /\ \E o \in save_deployment_state :
          /\ state_file' = o.file
          /\ SetTh(t, AfterFlush(th[t], o.flush))
    /\ UNCHANGED <<deployment_state, repos, now, github_ok, openai_client, nreq>>

\* lines 900-901 with other threads running: open(..., 'w') truncates the
\* file, json.dump serialises the ledger as it is now into the file object
OpenStateFile(t) ==
    /\ th[t].pc = "save"
    /\ state_file' = [kind |-> "empty", doc |-> EmptyLedger]
    /\ SetTh(t, [th[t] EXCEPT !.pc = "close", !.buffer = deployment_state])
    /\ UNCHANGED <<deployment_state, repos, now, github_ok, openai_client, nreq>>

\* the length of the text json.dump writes for a ledger: per entry the key,
\* the repository name and one fixed-width timestamp for each date field
RECURSIVE TextSize(_)
TextSize(doc) ==
    IF DOMAIN doc = {} THEN 0
    ELSE LET key == CHOOSE k \in DOMAIN doc : TRUE
             rest == [k \in DOMAIN doc \ {key} |-> doc[k]]
         IN  Len(key) + Len(doc[key]["repo_name"])
               + Cardinality(DOMAIN doc[key] \ {"repo_name"}) + TextSize(rest)

\* the buffered text goes to offset 0 of the file. Over an empty file it is
\* the whole document; over a document that another thread wrote since the
\* truncation it replaces that document when it is at least as long, and
\* otherwise leaves the other's tail behind it; over a malformed text of
\* unknown length either can happen
Overwrite(file, buffer) ==
    CASE file.kind = "ok" ->
           IF TextSize(buffer) >= TextSize(file.doc)
           THEN { [kind |-> "ok", doc |-> buffer] }
           ELSE { [kind |-> "partial", doc |-> EmptyLedger] }
      [] file.kind = "partial" ->
           { [kind |-> "ok", doc |-> buffer], [kind |-> "partial", doc |-> EmptyLedger] }
      [] OTHER -> { [kind |-> "ok", doc |-> buffer] }

\* line 901, leaving the with block: the file object is flushed and closed
CloseStateFile(t) ==
    /\ th[t].pc = "close"
    /\ \E file \in Overwrite(state_file, th[t].buffer) : state_file' = file
    /\ SetTh(t, AfterFlush(th[t], "ok"))
    /\ UNCHANGED <<deployment_state, repos, now, github_ok, openai_client, nreq>>

\* what one POST to the callback can produce
NotifyOutcomes == {"200", "201", "500", "Timeout", "ConnectionError"}

\* line 856
AttemptSucceeded_Any2xx(outcome) == outcome \in {"200", "201"}
AttemptSucceeded(outcome) == outcome = "200"

\* line 869
SleepsAfter_Always(attempt) == TRUE
SleepsAfter(attempt) == attempt < max_retries - 1

RECURSIVE SumSeq(_)
SumSeq(q) == IF q = <<>> THEN 0 ELSE Head(q) + SumSeq(Tail(q))

\* lines 827-836: the JSON body posted to the evaluation endpoint; repo_url,
\* commit_sha and pages_url are all read from the publisher's result, whose
\* repository is identified here by repo_name
NotifyPayload(r) ==
    [ email    |-> r.data["email"],
      task     |-> r.data["task"],
      round    |-> r.data["round"],
      nonce    |-> r.data["nonce"],
      repo_url |-> r.repo_data["repo_name"],
      updated  |-> Get(r.repo_data, "updated", FALSE) ]

\* lines 1164-1174: the body of the 200 response; processing_time counts the
\* seconds the handler spent in time.sleep
DeployPayload_BranchFlag(r) ==
    [ status          |-> "success",
      message         |-> "Deployment completed successfully",
      processing_time |-> SumSeq(r.slept),
      repo_name       |-> r.repo_data["repo_name"],
      round           |-> r.data["round"],
      updated         |-> (r.branch = "update") ]
DeployPayload(r) ==
    [ status          |-> "success",
      message         |-> "Deployment completed successfully",
      processing_time |-> SumSeq(r.slept),
      repo_name       |-> r.repo_data["repo_name"],
      round           |-> r.data["round"],
      updated         |-> Get(r.repo_data, "updated", FALSE) ]

\* the handler answers 200 once notify_evaluation has returned
Complete(r) == Respond([r EXCEPT !.payload = DeployPayload(r)], 200, "success")

\* lines 844-875 and 1164-1174: one iteration of the retry loop (attempt is
\* the loop index); the handler answers 200 once the notifier returns
NotifyStep_FailHard(r, outcome) ==
    LET r1 == [r EXCEPT !.attempt = @ + 1, !.last = outcome]
        r2 == IF SleepsAfter(r.attempt)
              THEN [r1 EXCEPT !.slept = Append(@, retry_delays[r.attempt + 1])]
              ELSE r1
    IN  IF AttemptSucceeded(outcome)
        THEN Complete([r1 EXCEPT !.notified = "True"])
        ELSE IF r.attempt + 1 < max_retries
             THEN r2
             ELSE Respond([r2 EXCEPT !.notified = "False"], 502, "EXTERNAL_API_ERROR")
NotifyStep(r, outcome) ==
    LET r1 == [r EXCEPT !.attempt = @ + 1, !.last = outcome]
        r2 == IF SleepsAfter(r.attempt)
              THEN [r1 EXCEPT !.slept = Append(@, retry_delays[r.attempt + 1])]
              ELSE r1
    IN  IF AttemptSucceeded(outcome)
        THEN Complete([r1 EXCEPT !.notified = "True"])
        ELSE IF r.attempt + 1 < max_retries
             THEN r2
             ELSE Complete([r2 EXCEPT !.notified = "False"])

NotifyAttempt(t) ==
    /\ th[t].pc = "notify"
    /\ th[t].attempt < max_retries
    /\ \E outcome \in NotifyOutcomes : SetTh(t, NotifyStep(th[t], outcome))
    /\ UNCHANGED <<deployment_state, state_file, repos, now, github_ok, openai_client, nreq>>

\* ------------------------------------------------------------ status query
\* line 1236
StatusKey_BaseName(email, task_id) == DeploymentKey(email, task_id)
StatusKey(email, task_id) == email \o <<"-">> \o task_id

\* lines 1238-1250
StatusResponse(r0, task_id, email) ==
    LET deployment_key == StatusKey(email, task_id)
        r1 == [r0 EXCEPT !.key = deployment_key]
    IN  IF deployment_key \in DOMAIN deployment_state
        THEN Respond([r1 EXCEPT !.payload =
                         [status |-> "found", task_id |-> task_id, email |-> email,
                          deployment_info |-> deployment_state[deployment_key]]],
                     200, "")
        ELSE Respond([r1 EXCEPT !.payload =
                         [status |-> "not_found", task_id |-> task_id, email |-> email]],
                     404, "")

\* GET /status/<task_id>?email=...; a missing email parameter reads as ''
Status(t, task_id, email) ==
    /\ CanReceive(t)
    /\ nreq' = nreq + 1
    /\ SetTh(t, StatusResponse(NewRequest("status",
                                          [task_id |-> JStr(task_id), email |-> JStr(email)],
                                          FALSE),
                               task_id, email))
    /\ UNCHANGED <<deployment_state, state_file, repos, now, github_ok, openai_client>>

\* lines 1207-1231: GET /health reports the two clients
HealthResponse(r0) ==
    Respond([r0 EXCEPT !.payload =
                [status |-> IF github_ok /\ openai_client THEN "healthy" ELSE "degraded"]],
            200, "")

Health(t) ==
    /\ CanReceive(t)
    /\ nreq' = nreq + 1
    /\ SetTh(t, HealthResponse(NewRequest("health", EmptyDict, FALSE)))
    /\ UNCHANGED <<deployment_state, state_file, repos, now, github_ok, openai_client>>

\* ------------------------------------------------------------------ requests
TaskC   == <<"c">>
TaskC2  == <<"c", "-", "r", "o", "u", "n", "d", "2">>
EmailA  == <<"a", "@", "b", ".", "c">>
EmailD  == <<"d", "@", "b", ".", "c">>
Brief   == JStr(<<"b">>)
Checks1 == JList(<<JStr(<<"x">>)>>)

NameAC   == <<"a", ".", "c">>
NameUp   == <<".", ".", "/", "e">>
UrlB64   == DataPrefix \o <<"t", ";">> \o Base64Name \o <<",", "Y", "Q", "=", "=">>
UrlPlain == DataPrefix \o <<",", "a">>
UrlBadPad  == DataPrefix \o <<"t", ";">> \o Base64Name \o <<",", "Y", "Q">>
UrlNoComma == DataPrefix \o <<"t", ";">> \o Base64Name
UrlHttp  == <<"h", ":", "/", "x">>
Attachment(name, url) == JDict([name |-> name, url |-> url])

\* entries of an attachments list
AttachmentOpts ==
    { Attachment(JStr(NameAC), JStr(UrlB64)),
      Attachment(JStr(NameUp), JStr(UrlPlain)),
      Attachment(JStr(NameAC), JStr(UrlBadPad)),
      Attachment(JStr(NameAC), JStr(UrlNoComma)),
      Attachment(JStr(NameAC), JStr(UrlHttp)),
      JDict([url |-> JStr(UrlPlain)]),
      JInt(7),
      Attachment(JInt(5), JStr(UrlPlain)),
      Attachment(JStr(NameAC), JNull) }

Body(task, email, round) ==
    [task |-> JStr(task), brief |-> Brief, checks |-> Checks1,
     email |-> JStr(email), round |-> JInt(round)]

\* request bodies of the deployment state machine
Bodies ==
    { Put(Body(TaskC, EmailA, 1), "attachments",
          JList(<<Attachment(JStr(NameAC), JStr(UrlB64)),
                  Attachment(JStr(NameAC), JStr(UrlNoComma)),
                  Attachment(JStr(NameUp), JStr(UrlPlain))>>)),
      Put(Body(TaskC2, EmailA, 2), "attachments", JNull),
      Put(Body(TaskC2, EmailD, 2), "secret", JStr(<<>>)),
      EmptyDict,
      [task |-> JStr(TaskC), checks |-> Checks1, email |-> JStr(EmailA), round |-> JInt(2)],
      [brief |-> Brief, checks |-> Checks1, secret |-> JStr(<<"w">>)],
      [brief |-> Brief, checks |-> Checks1, secret |-> JInt(7)],
      [task |-> JStr(TaskC), brief |-> Brief, checks |-> JList(<<JDict([js |-> JNull])>>)],
      [task |-> JStr(TaskC), brief |-> Brief, checks |-> JList(<<>>),
       secret |-> JStr(USER_SECRET)] }

\* status queries of the deployment state machine
StatusTasks  == {TaskC, TaskC2}
StatusEmails == {EmailA, <<>>}

\* ------------------------------------------------------------ specification
Step(t) ==
    \/ \E body \in Bodies : Receive(t, body, FALSE)
    \/ \E body \in Bodies : ValidateOnly(t, body)
    \/ \E task_id \in StatusTasks, email \in StatusEmails : Status(t, task_id, email)
    \/ Health(t)
    \/ Generate(t)
    \/ Lookup(t)
    \/ Publish(t)
    \/ WriteLedger(t)
    \/ StampLedger(t)
    \/ Save(t)
    \/ NotifyAttempt(t)

\* one request at a time
Next == Step(1)

Spec == Init /\ [][Next]_vars

\* ------------------------------------------- requests of the normaliser
Census       == <<"c", "e", "n", "s", "u", "s">>
CensusRound2 == Census \o <<"-", "r", "o", "u", "n", "d", "2">>
CensusUpper  == <<"C", "-", "R", "2">>
CensusR1     == <<"c", "-", "r", "1">>
CensusBoth   == <<"r", "1", "-", "r", "2">>          \* 'r1-' and '-r2'

Field(k, values) == {EmptyDict} \cup {(k :> v) : v \in values}

TaskOpts   == Field("task", {JStr(Census), JStr(CensusRound2), JStr(CensusUpper),
                             JStr(CensusR1), JStr(CensusBoth), JStr(<<>>)})
RoundOpts  == Field("round", {JNull, JInt(1), JInt(2), JInt(3),
                              JStr(<<"1">>), JStr(<<"2">>), JStr(<<"x">>)})
BriefOpts  == Field("brief", {Brief, JStr(<<>>)})
ChecksOpts == Field("checks", {Checks1, JList(<<>>), JStr(<<"x">>),
                               JList(<<JDict([js |-> JStr(<<"j">>)]), JInt(7)>>),
                               JList(<<JDict(EmptyDict)>>)})
EmailOpts  == Field("email", {JStr(EmailA), JStr(<<"a", "@", "b">>)})
SecretOpts == Field("secret", {JStr(USER_SECRET), JStr(<<"w">>), JStr(<<>>), JInt(7)})

AttachOpts == Field("attachments", {JNull})

NormBodies ==
    { t @@ r @@ b @@ c @@ e @@ s @@ a :
        t \in TaskOpts, r \in RoundOpts, b \in BriefOpts,
        c \in ChecksOpts, e \in EmailOpts, s \in SecretOpts, a \in AttachOpts }

\* the two validation-only operations, applied to one request
NormValidate == th[1].pc = "idle" /\ \E body \in NormBodies : ValidateOnly(1, body)
NormDryRun   == th[1].pc = "idle" /\ \E body \in NormBodies : Receive(1, body, TRUE)

NextNorm == NormValidate \/ NormDryRun

SpecNorm == Init /\ [][NextNorm]_vars

\* ------------------------------------------- requests in the nested form
UrlNested == <<"h", "/", "n">>
UrlTop    == <<"h", "/", "t">>

\* the object sent as 'task'
NestedTasks ==
    { i @@ b @@ c @@ a @@ u :
        i \in Field("id", {JStr(TaskC)}),
        b \in Field("brief", {Brief}),
        c \in Field("checks", {Checks1}),
        a \in Field("attachments", {JList(<<Attachment(JStr(NameAC), JStr(UrlB64))>>), JNull}),
        u \in Field("evaluation_url", {JStr(UrlNested)}) }

NestedBodies ==
    { ("task" :> JDict(nested)) @@ u @@ b :
        nested \in NestedTasks,
        u \in Field("evaluation_url", {JStr(UrlTop)}),
        b \in Field("brief", {JStr(<<"o">>)}) }

NestedValidate == th[1].pc = "idle" /\ \E body \in NestedBodies : ValidateOnly(1, body)
NestedDryRun   == th[1].pc = "idle" /\ \E body \in NestedBodies : Receive(1, body, TRUE)

NextNested == NestedValidate \/ NestedDryRun

SpecNested == Init /\ [][NextNested]_vars

\* ------------------------------------------------ requests of the key rule
KeyTasks ==
    { TaskC, TaskC2, TaskC \o R2A, TaskC \o R2B,
      <<"c", "-", "c">>,               \* a hyphen in the id
      TaskC2 \o <<"-", "c">>,          \* the suffix inside the id
      TaskC2 \o R2 }                   \* the suffix twice
KeyEmails == { EmailA, <<"a", "b">>,
               EmailA \o <<"-", "c">> }    \* a hyphen in the domain: a@b.c-c

KeyBodies == { Body(task, email, round) :
                 task \in KeyTasks, email \in KeyEmails, round \in {1, 2} }

\* one request, followed up to the ledger lookup
KeyReceive == th[1].pc = "idle" /\ \E body \in KeyBodies : Receive(1, body, FALSE)

NextKey == KeyReceive \/ Generate(1) \/ Lookup(1)

SpecKey == Init /\ [][NextKey]_vars

\* ------------------------------------- requests of the repository search
TaskCC  == <<"c", "-", "c">>
TaskC2C == TaskC2 \o <<"-", "c">>

\* a round-1 deployment of c-c, and a round-2 request whose id holds the
\* round suffix inside
SearchBodies == { Body(TaskCC, EmailA, 1), Body(TaskC2C, EmailA, 2) }

SearchReceive == \E body \in SearchBodies : Receive(1, body, FALSE)

NextSearch ==
    \/ SearchReceive
    \/ Generate(1)
    \/ Lookup(1)
    \/ Publish(1)
    \/ WriteLedger(1)
    \/ StampLedger(1)
    \/ Save(1)
    \/ NotifyAttempt(1)

SpecSearch == Init /\ [][NextSearch]_vars

\* ------------------------------------------------- two concurrent requests
\* the ledger as load_deployment_state finds it at start-up: empty, or with
\* the record of an earlier deployment of task c by a@b.c
RaceKey   == DeploymentKey(EmailA, TaskC)
PriorRepo == RepoName(TaskC, 1)
PriorLedger == (RaceKey :> [repo_name |-> PriorRepo, created_at |-> 1])

InitRace ==
    /\ \E prior \in BOOLEAN :
          /\ deployment_state = IF prior THEN PriorLedger ELSE EmptyLedger
          /\ state_file = IF prior THEN [kind |-> "ok", doc |-> PriorLedger]
                                   ELSE [kind |-> "none", doc |-> EmptyLedger]
          /\ repos = IF prior THEN <<PriorRepo>> ELSE <<>>
    /\ now = 1
    /\ github_ok = TRUE
    /\ openai_client = FALSE
    /\ th = [t \in Threads |-> IdleThread]
    /\ nreq = 0

\* two requests for one deployment key, and one for another key
RaceBodies == { Body(TaskC, EmailA, 1), Body(TaskC2, EmailA, 2), Body(TaskC, EmailD, 1) }

\* each thread of the server takes one request
RaceReceive(t) == th[t].pc = "idle" /\ \E body \in RaceBodies : Receive(t, body, FALSE)

\* the handlers run interleaved up to the call of the notifier
RaceStep(t) ==
    \/ RaceReceive(t)
    \/ Generate(t)
    \/ Lookup(t)
    \/ Publish(t)
    \/ WriteLedger(t)
    \/ StampLedger(t)
    \/ OpenStateFile(t)
    \/ CloseStateFile(t)

NextRace == \E t \in Threads : RaceStep(t)

SpecRace == InitRace /\ [][NextRace]_vars

\* ------------------------------------------- inputs of the attachment handler
MaxAttachments == 3

AttachInputs == UNION { [1..n -> AttachmentOpts] : n \in 0..MaxAttachments }

\* one call of process_attachments on a list
ProcessAttachments(t, input) ==
    /\ th[t].pc = "idle"
    /\ nreq' = nreq + 1
    /\ LET p == process_attachments(JList(input))
       IN  SetTh(t, [NewRequest("attach", ("attachments" :> JList(input)), FALSE)
                        EXCEPT !.pc = "done", !.attachments = p.out, !.exc = p.exc])
    /\ UNCHANGED <<deployment_state, state_file, repos, now, github_ok, openai_client>>

NextAttach == \E input \in AttachInputs : ProcessAttachments(1, input)

SpecAttach == Init /\ [][NextAttach]_vars

\* ================================================================== claims
Requests == {t \in Threads : th[t].op = "deploy"}

\* the request has been answered with this status
Answered(r, status) == r.pc = "done" /\ r.status = status

\* no code-generation call, repository call, notification attempt or ledger write
NoExternalEffect(r) ==
    /\ r.gen_calls = 0
    /\ r.pub_calls = <<>>
    /\ r.made = <<>>
    /\ r.attempt = 0
    /\ r.writes = 0
    /\ deployment_state = r.pre_state
    /\ state_file = r.pre_file
    /\ repos = r.pre_repos

\* the request field f as the normaliser sees it once a nested task object is hoisted
RequestField(body, f) ==
    IF "task" \in DOMAIN body /\ IsDict(body["task"])
    THEN IF f = "task" THEN Get(body["task"].d, "id", body["task"])
                       ELSE Get(body["task"].d, f, JNull)
    ELSE Get(body, f, JNull)

EssentialMissing(body) ==
    \E f \in {"task", "brief", "checks"} : ~Truthy(RequestField(body, f))

\* the request passed the ledger lookup of deploy
Looked(r) == r.key # NoKey
RoundOf(r) == r.data["round"]
HadEntry(r) == r.key \in DOMAIN r.pre_state
RepoNameOf(ledger, key) == ledger[key]["repo_name"]

\* ---- C1 -----------------------------------------------------------------
\* C1 as stated: a round-2 deploy whose deployment key already has a ledger
\* entry goes to the publisher's update operation, no repository is created,
\* and after success the entry's repo_name is what it was before the request.
C1_Round2NeverCreates ==
    \A t \in Requests :
        ( Looked(th[t]) /\ RoundOf(th[t]) = JInt(2) /\ HadEntry(th[t]) ) =>
            /\ th[t].branch = "update"
            /\ th[t].made = <<>>
            /\ "create" \notin RangeOf(th[t].pub_calls)
            /\ Answered(th[t], 200) =>
                  RepoNameOf(deployment_state, th[t].key) = RepoNameOf(th[t].pre_state, th[t].key)

\* C1 amended: a round-2 deploy whose deployment key already has a ledger
\* entry always calls the publisher's update operation with the recorded
\* repo_name; when the recorded repository is found by its exact name, no
\* repository is created and the entry's repo_name stays what it was.
C1_Round2UpdatesRecordedRepo ==
    \A t \in Requests :
        ( Looked(th[t]) /\ RoundOf(th[t]) = JInt(2) /\ HadEntry(th[t]) ) =>
            /\ th[t].branch = "update"
            /\ th[t].stored = th[t].pre_state[th[t].key]
            /\ th[t].pub_calls # <<>> => Head(th[t].pub_calls) = "update"
            /\ th[t].pub_calls = <<"update">> =>
                  /\ th[t].made = <<>>
                  /\ repos = th[t].pre_repos
                  /\ RepoNameOf(deployment_state, th[t].key)
                        = RepoNameOf(th[t].pre_state, th[t].key)
                  /\ th[t].repo_data # EmptyDict =>
                        th[t].repo_data = [repo_name |-> RepoNameOf(th[t].pre_state, th[t].key),
                                           updated |-> TRUE]

\* a round-2 request updated the recorded repository in place and was answered 200
C1_Witness ==
    \E t \in Requests :
        /\ Looked(th[t]) /\ RoundOf(th[t]) = JInt(2) /\ HadEntry(th[t])
        /\ th[t].pub_calls = <<"update">>
        /\ Answered(th[t], 200)
        /\ "updated_at" \in DOMAIN deployment_state[th[t].key]

\* ---- C2 -----------------------------------------------------------------
\* C2: a successful round-2 deploy whose key has no ledger entry creates one
\* new repository and records it under the key; a round-2 request that finds
\* an entry for its key takes the update path with that entry's repo_name.
C2_Round2WithoutEntryCreatesThenUpdates ==
    \A t \in Requests :
        ( Looked(th[t]) /\ RoundOf(th[t]) = JInt(2) ) =>
            /\ ( ~HadEntry(th[t]) /\ Answered(th[t], 200) ) =>
                  /\ th[t].pub_calls = <<"create">>
                  /\ Len(th[t].made) = 1
                  /\ th[t].made[1] \notin RangeOf(th[t].pre_repos)
                  /\ th[t].made[1] \in RangeOf(repos)
                  /\ th[t].key \in DOMAIN deployment_state
                  /\ RepoNameOf(deployment_state, th[t].key) = th[t].made[1]
            /\ HadEntry(th[t]) =>
                  /\ th[t].branch = "update"
                  /\ th[t].stored["repo_name"] = RepoNameOf(th[t].pre_state, th[t].key)

\* the second round-2 request of a requester without a round-1 deployment is
\* on the update path with the repository the first one created
C2_Witness ==
    \E t \in Requests :
        /\ Looked(th[t]) /\ RoundOf(th[t]) = JInt(2)
        /\ th[t].data["email"] = JStr(EmailD)
        /\ th[t].branch = "update"
        /\ th[t].stored["repo_name"] = RepoName(TaskC2, 1)
        /\ "updated_at" \notin DOMAIN th[t].stored

\* ---- C3 -----------------------------------------------------------------
\* C3: a round-1 deploy never takes the update path; each successful one
\* creates one new repository, and afterwards the ledger entry of its key
\* names that repository and no other key was added.
C3_Round1AlwaysCreates ==
    \A t \in Requests :
        ( Looked(th[t]) /\ RoundOf(th[t]) = JInt(1) ) =>
            /\ th[t].branch = "create"
            /\ th[t].pub_calls \in {<<>>, <<"create">>}
            /\ Answered(th[t], 200) =>
                  /\ Len(th[t].made) = 1
                  /\ th[t].made[1] \notin RangeOf(th[t].pre_repos)
                  /\ th[t].made[1] \in RangeOf(repos)
                  /\ RepoNameOf(deployment_state, th[t].key) = th[t].made[1]
                  /\ DOMAIN deployment_state = DOMAIN th[t].pre_state \cup {th[t].key}

\* a second successful round-1 deploy replaced the repository of its key
C3_Witness ==
    \E t \in Requests :
        /\ Looked(th[t]) /\ RoundOf(th[t]) = JInt(1) /\ HadEntry(th[t])
        /\ Answered(th[t], 200)
        /\ RepoNameOf(deployment_state, th[t].key) # RepoNameOf(th[t].pre_state, th[t].key)

\* ---- C4 -----------------------------------------------------------------
\* the publisher was called and raised
PublishFailed(r) == r.pub_calls # <<>> /\ r.repo_data = EmptyDict

\* C4: when the publisher's create or update call fails, the request ends
\* with an error status, the in-memory and the persisted ledger are what they
\* were before the request, and the notifier is not invoked.
C4_PublishFailureLeavesLedger ==
    \A t \in Requests :
        PublishFailed(th[t]) =>
            /\ th[t].pc = "done"
            /\ th[t].status \in {400, 500, 502}
            /\ deployment_state = th[t].pre_state
            /\ state_file = th[t].pre_file
            /\ th[t].writes = 0
            /\ th[t].attempt = 0
            /\ th[t].notified = ""

\* an update failed while the ledger already held an entry
C4_Witness ==
    \E t \in Requests :
        /\ PublishFailed(th[t])
        /\ th[t].branch = "update"
        /\ th[t].status = 500
        /\ deployment_state # EmptyLedger

C7_AllFailFiveAttempts ==
    \A t \in Requests :
        /\ th[t].pc = "notify" =>          \* every attempt so far failed
              /\ th[t].attempt < 5
              /\ th[t].slept = SubSeq(<<1, 2, 4, 8>>, 1, th[t].attempt)
        /\ ( th[t].attempt = 5 /\ th[t].last # "200" ) => th[t].notified = "False"
        /\ th[t].notified = "False" =>
              /\ th[t].attempt = 5
              /\ th[t].last # "200"
              /\ th[t].slept = <<1, 2, 4, 8>>

\* the notifier gave up
C7_Witness ==
    \E t \in Requests : th[t].notified = "False" /\ th[t].attempt = 5

\* ---- C8 -----------------------------------------------------------------

\* 1, 3, 7, 15: the sum of the first k backoff delays
WaitedBefore(k) == CASE k = 0 -> 0 [] k = 1 -> 1 [] k = 2 -> 3 [] k = 3 -> 7 [] k = 4 -> 15

\* C8: when the first k attempts fail and attempt k+1 is answered 200, the
\* notifier returns True after k+1 attempts having slept the sum of the first
\* k delays (15 seconds for k = 4).
C8_SuccessAfterKFailures ==
    \A t \in Requests :
        th[t].notified = "True" =>
            /\ th[t].attempt \in 1..5
            /\ th[t].last = "200"
            /\ Len(th[t].slept) = th[t].attempt - 1
            /\ SumSeq(th[t].slept) = WaitedBefore(th[t].attempt - 1)

\* the fifth attempt succeeded
C8_Witness ==
    \E t \in Requests :
        th[t].notified = "True" /\ th[t].attempt = 5 /\ SumSeq(th[t].slept) = 15

\* ---- C9 -----------------------------------------------------------------
\* C9: only a 200 response ends the notifier with success; any other outcome
\* leaves it retrying while attempts remain, and nothing is attempted after
\* a 200.
C9_OnlyStatus200Succeeds ==
    \A t \in Requests :
        /\ th[t].notified = "True" <=> th[t].last = "200"
        /\ th[t].last = "200" => th[t].pc = "done"
        /\ ( th[t].last \notin {"", "200"} /\ th[t].attempt < 5 ) =>
              /\ th[t].pc = "notify"
              /\ ENABLED NotifyAttempt(t)
        /\ th[t].pc = "done" => ~ENABLED NotifyAttempt(t)

\* a 201 response was taken as a failure and the notifier goes on
C9_Witness ==
    \E t \in Requests :
        th[t].last = "201" /\ th[t].pc = "notify" /\ th[t].attempt = 1

\* ---- C10 ----------------------------------------------------------------
\* C10: when the publish succeeded and the notifier gave up, the deploy is
\* answered 200 / success and the ledger entry and the repository of the
\* request stay in place.
C10_NotifyFailureKeepsDeployment ==
    \A t \in Requests :
        th[t].notified = "False" =>
            /\ Answered(th[t], 200)
            /\ th[t].code = "success"
            /\ th[t].writes = 1
            /\ th[t].key \in DOMAIN deployment_state
            /\ RepoNameOf(deployment_state, th[t].key) = th[t].repo_data["repo_name"]
            /\ th[t].repo_data["repo_name"] \in RangeOf(repos)
            /\ \A i \in 1..Len(th[t].made) : th[t].made[i] \in RangeOf(repos)

\* the notifier gave up after a repository was created
C10_Witness ==
    \E t \in Requests :
        /\ th[t].notified = "False"
        /\ th[t].made # <<>>
        /\ Answered(th[t], 200)

\* ---- C6 -----------------------------------------------------------------
HasPattern(task, patterns) == \E p \in patterns : Contains(Lower(task), p)

\* C6: a request without a round field gets its round from the task id: round 2
\* when the id contains a round-2 pattern, round 1 when it contains no round
\* pattern.
C6_RoundInferredFromTaskId ==
    \A t \in Threads :
        ( /\ Answered(th[t], 200)
          /\ "round" \notin DOMAIN th[t].body
          /\ IsStr(th[t].norm["task"]) )
        => LET task == th[t].norm["task"].s
           IN  /\ HasPattern(task, Round2Patterns) => th[t].norm["round"] = JInt(2)
               /\ ( ~HasPattern(task, Round2Patterns) /\ ~HasPattern(task, Round1Patterns) )
                     => th[t].norm["round"] = JInt(1)

\* ---- C11 ----------------------------------------------------------------
\* the same deployment, had the notifier reported success on its last attempt
NotifiedTwin(r) == [r EXCEPT !.notified = "True", !.last = "200"]

\* C11: when the publish step succeeded and the notifier gave up, the body of
\* the deploy response differs from the body the same deployment gets when its
\* notification succeeded.
C11_NotifyFailureInPayload ==
    \A t \in Requests :
        ( /\ Answered(th[t], 200)
          /\ th[t].repo_data # EmptyDict
          /\ th[t].notified = "False" )
        => th[t].payload # DeployPayload(NotifiedTwin(th[t]))

\* ---- C12 ----------------------------------------------------------------
\* the request carries a non-empty secret that is not the configured one
WrongSecret(body) ==
    /\ "secret" \in DOMAIN body
    /\ Truthy(body["secret"])
    /\ body["secret"] # JStr(USER_SECRET)

\* C12: every deploy or validate request with a non-empty secret that differs
\* from the configured secret is answered 401 INVALID_SECRET, whatever else
\* is wrong with it, and causes no code-generation call, repository call,
\* notification attempt or ledger write.
C12_WrongSecretAlways401 ==
    \A t \in Threads :
        ( th[t].op \in {"deploy", "validate"} /\ WrongSecret(th[t].body) ) =>
            /\ Answered(th[t], 401)
            /\ th[t].code = "INVALID_SECRET"
            /\ NoExternalEffect(th[t])

\* ---- C13 ----------------------------------------------------------------
SecretOmitted(body) == "secret" \notin DOMAIN body \/ ~Truthy(body["secret"])

\* what the handler does on arrival of the same request carrying the
\* configured secret
WithSecretReceived(r) ==
    LET body == Put(r.body, "secret", JStr(USER_SECRET))
        r0   == [IdleThread EXCEPT !.op = r.op, !.body = body, !.dry = r.dry]
    IN  IF r.op = "deploy" THEN DeployReceive(r0, body, r.dry)
                           ELSE ValidateOnlyResponse(r0, body)

\* C13: a request whose secret is absent or empty is handled as the same
\* request carrying the configured secret: where that one is answered at
\* once, this one is answered at once with the same status and without any
\* external call or ledger write; where that one goes on to deploy, this one
\* goes on from the same normalized request.
C13_OmittedSecretSameAsCorrect ==
    \A t \in Threads :
        ( th[t].op \in {"deploy", "validate"} /\ SecretOmitted(th[t].body) ) =>
            LET twin == WithSecretReceived(th[t])
            IN  IF twin.pc = "done"
                THEN /\ Answered(th[t], twin.status)
                     /\ NoExternalEffect(th[t])
                ELSE th[t].data = twin.data

\* a request with an empty secret was deployed and recorded
C13_Witness ==
    \E t \in Requests :
        /\ "secret" \in DOMAIN th[t].body
        /\ th[t].body["secret"] = JStr(<<>>)
        /\ th[t].writes = 1
        /\ Answered(th[t], 200)

\* ---- C14 ----------------------------------------------------------------
\* C14: a validate request makes no code-generation call, no repository call
\* and no notification attempt and leaves the ledger in memory and on disk
\* unchanged; it is answered 200 exactly when the secret check passes and
\* normalization succeeds.
C14_ValidateOnlyNoEffect ==
    \A t \in Threads :
        th[t].op = "validate" =>
            /\ th[t].pc = "done"
            /\ NoExternalEffect(th[t])
            /\ th[t].status = 200 <=>
                  ( ~WrongSecret(th[t].body) /\ validate_request(th[t].body).ok )

\* ---- C15 ----------------------------------------------------------------
\* C15: generate_app_code never raises and always returns a document; a failed
\* client call is followed by exactly one direct call, the fallback document
\* is returned only after the direct call failed, no request makes more than
\* two generation calls, and a request is never failed by generation.
C15_GenerationNeverFails ==
    \A t \in Requests :
        th[t].doc # "" =>
            /\ th[t].doc \in {"generated", "fallback"}
            /\ th[t].gen_calls = Len(th[t].transports)
            /\ th[t].transports \in {<<"client">>, <<"direct">>, <<"client", "direct">>}
            /\ th[t].doc = "fallback" =>
                  th[t].transports[Len(th[t].transports)] = "direct"
            /\ ( th[t].pc = "done" /\ th[t].status # 200 ) => th[t].pub_calls # <<>>

\* ---- C16 ----------------------------------------------------------------
\* the direct calls of process_attachments
AttachCalls == {t \in Threads : th[t].op = "attach"}
InputOf(r) == r.body["attachments"].l

\* what the payload of a data URI decodes to: [ok, bytes]
PayloadOf(url) ==
    LET header  == SplitOnce(url, ",")[1]
        payload == SplitOnce(url, ",")[2]
        info    == SplitOnce(Replace(header, DataPrefix, <<>>), ";")
    IN  IF Len(info) = 2 /\ info[2] = Base64Name
        THEN b64decode(payload)
        ELSE [ok |-> TRUE, bytes |-> EncodeUtf8(payload)]

\* the entries C16 as stated does not list as skipped: url and name present,
\* the url a data URI with a comma, the payload decodes
Listed(a) ==
    /\ IsDict(a)
    /\ "url" \in DOMAIN a.d /\ "name" \in DOMAIN a.d
    /\ IsStr(a.d["url"])
    /\ MatchAt(a.d["url"].s, 1, DataPrefix)
    /\ IndexOf(a.d["url"].s, ",") # 0
    /\ PayloadOf(a.d["url"].s).ok

ListedWithName(a) == Listed(a) /\ IsStr(a.d["name"])

\* the result holds exactly these entries, decoded, in input order
ResultIs(r, kept) ==
    /\ Len(r.attachments) = Len(kept)
    /\ \A i \in 1..Len(kept) :
          i <= Len(r.attachments) =>
             /\ JStr(r.attachments[i].original_name) = kept[i].d["name"]
             /\ r.attachments[i].content = PayloadOf(kept[i].d["url"].s).bytes

\* C16 as stated: process_attachments never raises; entries that lack url or
\* name, whose url is not a data URI or has no comma, or whose payload fails
\* to decode are skipped, and every other entry is decoded and appears in the
\* result in input order.
C16_OnlyListedEntriesSkipped ==
    \A t \in AttachCalls :
        /\ th[t].exc = ""
        /\ ResultIs(th[t], SelectSeq(InputOf(th[t]), Listed))

\* C16 amended: process_attachments never raises on a list; entries that are
\* not objects, that lack url or name, whose url is not a string starting with
\* "data:" or has no comma, whose payload fails to decode, or whose name is
\* not a string are skipped, and every other entry is decoded and appears in
\* the result in input order.
C16_MalformedEntriesSkipped ==
    \A t \in AttachCalls :
        /\ th[t].exc = ""
        /\ ResultIs(th[t], SelectSeq(InputOf(th[t]), ListedWithName))

\* two well-formed entries around an entry without a comma came out in order
C16_Witness ==
    \E t \in AttachCalls :
        /\ Len(InputOf(th[t])) = 3
        /\ InputOf(th[t])[2] = Attachment(JStr(NameAC), JStr(UrlNoComma))
        /\ Len(th[t].attachments) = 2
        /\ th[t].attachments[1].original_name = NameUp
        /\ th[t].attachments[1].content = <<97>>
        /\ th[t].attachments[2].original_name = NameAC

\* ---- C17 ----------------------------------------------------------------
EndsWith(s, p) == Len(p) <= Len(s) /\ SubSeq(s, Len(s) - Len(p) + 1, Len(s)) = p
DropLast(s, n) == SubSeq(s, 1, Len(s) - n)

\* the task id without one trailing round suffix, longest suffix first
StripSuffixOnce(task) ==
    IF EndsWith(task, R2A) THEN DropLast(task, Len(R2A))
    ELSE IF EndsWith(task, R2B) THEN DropLast(task, Len(R2B))
    ELSE IF EndsWith(task, R2) THEN DropLast(task, Len(R2))
    ELSE task

\* C17: the deployment key is the normalized email, "-", and the task id with
\* at most one trailing -round2a, -round2b or -round2 removed; the rest of the
\* task id is left as it is.
C17_KeyStripsOneTrailingSuffix ==
    \A t \in Requests :
        Looked(th[t]) =>
            th[t].key = th[t].data["email"].s \o <<"-">>
                        \o StripSuffixOnce(th[t].data["task"].s)

\* ---- C18 ----------------------------------------------------------------
StatusQueries == {t \in Threads : th[t].op = "status"}

\* C18: a status query for task id and email e is answered 200 with the
\* stored record exactly when the ledger holds the key e + "-" + task id, and
\* 404 otherwise; it never changes the ledger.
C18_StatusReportsLedgerEntry ==
    \A t \in StatusQueries :
        LET k == th[t].body["email"].s \o <<"-">> \o th[t].body["task_id"].s
        IN  /\ th[t].pc = "done"
            /\ IF k \in DOMAIN deployment_state
               THEN /\ th[t].status = 200
                    /\ th[t].payload["deployment_info"] = deployment_state[k]
               ELSE th[t].status = 404
            /\ deployment_state = th[t].pre_state
            /\ state_file = th[t].pre_file

\* a query found the record of an earlier deployment
C18_Witness ==
    \E t \in StatusQueries :
        /\ Answered(th[t], 200)
        /\ th[t].payload["deployment_info"]["repo_name"] \in RangeOf(repos)

\* ---- C19 ----------------------------------------------------------------
\* C19: when the flush of the ledger to disk fails after a successful publish,
\* the failure is absorbed: the entry written in memory stays, the request
\* goes on to the notification and is answered 200.
C19_FlushFailureAbsorbed ==
    \A t \in Requests :
        th[t].flushed \in {"open_failed", "dump_failed"} =>
            /\ th[t].key \in DOMAIN deployment_state
            /\ RepoNameOf(deployment_state, th[t].key) = th[t].repo_data["repo_name"]
            /\ th[t].pc \in {"notify", "done"}
            /\ th[t].pc = "done" => ( th[t].status = 200 /\ th[t].attempt >= 1 )

\* the state file was left truncated, the callback was notified, the answer was 200
C19_Witness ==
    \E t \in Requests :
        /\ th[t].flushed = "dump_failed"
        /\ state_file.kind = "partial"
        /\ th[t].notified = "True"
        /\ Answered(th[t], 200)

\* ---- C20 ----------------------------------------------------------------
\* validate_request ran on the request and returned True
Normalized(r) ==
    /\ r.op \in {"deploy", "validate"}
    /\ r.norm # EmptyDict
    /\ r.status \notin {400, 401, 422}

\* C20: after a successful normalization the round is 1 or 2 (anything else
\* was coerced to 1), the checks list is not empty, and the email contains
\* "@" and "." (an email without them was replaced by the default address).
C20_NormalizedRequestInvariants ==
    \A t \in Threads :
        Normalized(th[t]) =>
            LET norm == th[t].norm
                sent == RequestField(th[t].body, "email")
            IN  /\ norm["round"] \in {JInt(1), JInt(2)}
                /\ IsList(norm["checks"]) /\ Len(norm["checks"].l) >= 1
                /\ IsStr(norm["email"])
                /\ Contains(norm["email"].s, <<"@">>)
                /\ Contains(norm["email"].s, <<".">>)
                /\ norm["email"] # sent => norm["email"] = JStr(DefaultEmail)

\* a request sent with round 3 and an email without a dot was normalized to
\* round 1 and the default address
C20_Witness ==
    \E t \in Threads :
        /\ Normalized(th[t])
        /\ Answered(th[t], 200)
        /\ "round" \in DOMAIN th[t].body /\ th[t].body["round"] = JInt(3)
        /\ "email" \in DOMAIN th[t].body /\ th[t].body["email"] = JStr(<<"a", "@", "b">>)
        /\ th[t].norm["round"] = JInt(1)
        /\ th[t].norm["email"] = JStr(DefaultEmail)

\* ---- C21 ----------------------------------------------------------------
\* C21: a request with task and brief present and an empty checks list
\* normalizes successfully, its checks replaced by exactly one default check.
C21_EmptyChecksGetDefault ==
    \A t \in Threads :
        ( /\ th[t].op \in {"deploy", "validate"}
          /\ ~WrongSecret(th[t].body)
          /\ Truthy(RequestField(th[t].body, "task"))
          /\ Truthy(RequestField(th[t].body, "brief"))
          /\ RequestField(th[t].body, "checks") = JList(<<>>) )
        => /\ Normalized(th[t])
           /\ IsList(th[t].norm["checks"])
           /\ Len(th[t].norm["checks"].l) = 1

\* ---- C22 ----------------------------------------------------------------
\* the notifier of the request returned False: all five attempts failed
GaveUp(r) == r.notified = "False"

\* C22 as stated: when all five attempts fail the notifier has slept 31
\* seconds in total, the sum 1+2+4+8+16 of the backoff sequence.
C22_WorstCaseSleeps31 ==
    \A t \in Requests : GaveUp(th[t]) => SumSeq(th[t].slept) = 31

\* C22 amended: when all five attempts fail the notifier has slept 15 seconds
\* in total, the sum 1+2+4+8 of the first four backoffs; the fifth backoff,
\* 16, is never slept, and no request sleeps more than 15 seconds.
C22_WorstCaseSleeps15 ==
    \A t \in Requests :
        /\ SumSeq(th[t].slept) <= 15
        /\ 16 \notin RangeOf(th[t].slept)
        /\ GaveUp(th[t]) => SumSeq(th[t].slept) = 15

\* a request whose five attempts all failed, the last one on a timeout
C22_Witness ==
    \E t \in Requests :
        /\ GaveUp(th[t])
        /\ th[t].attempt = 5
        /\ th[t].last = "Timeout"
        /\ th[t].slept = <<1, 2, 4, 8>>

\* ---- C23 ----------------------------------------------------------------
\* a deploy request that passed the secret check and normalization and is
\* not a dry run
ValidDeploy(r) ==
    /\ r.op = "deploy" /\ ~r.dry
    /\ ~WrongSecret(r.body)
    /\ validate_request(r.body).ok

\* C23: while the GitHub client is unavailable every valid deploy request is
\* answered 500 or 502, never with a 4xx status, writes no ledger entry and
\* sends no notification.
C23_NoClientIsServerError ==
    \A t \in Threads :
        ( ~github_ok /\ ValidDeploy(th[t]) ) =>
            /\ th[t].writes = 0
            /\ th[t].attempt = 0
            /\ deployment_state = th[t].pre_state
            /\ th[t].pc = "done" => th[t].status \in {500, 502}

\* ---- C24 ----------------------------------------------------------------
\* the request published successfully and has made all its ledger assignments
Settled(r) == r.repo_data # EmptyDict /\ r.pc \in {"save", "close", "notify", "done"}

BothSettled ==
    /\ \A t \in Threads : Settled(th[t])
    /\ th[1].key = th[2].key

\* C24 as stated: after two concurrent deploy requests for the same key have
\* both published, the ledger holds one entry for the key and its repo_name is
\* the one returned by the publish of the request that wrote the ledger last.
C24_LastWriterWins ==
    BothSettled =>
        /\ th[1].key \in DOMAIN deployment_state
        /\ \A t \in Threads :
              th[t].wrote_last =>
                 RepoNameOf(deployment_state, th[t].key) = th[t].repo_data["repo_name"]

\* ---- C25 ----------------------------------------------------------------
\* the publisher changed a repository that existed before the request and
\* created none
ModifiedInPlace(r) ==
    /\ r.made = <<>>
    /\ r.repo_data["repo_name"] \in RangeOf(r.pre_repos)
    /\ r.pub_calls \in { <<"update">>, <<"update", "search">> }

\* the publisher created the repository it returned
CreatedNew(r) ==
    /\ r.made = <<r.repo_data["repo_name"]>>
    /\ r.repo_data["repo_name"] \notin RangeOf(r.pre_repos)
    /\ r.pub_calls \in { <<"create">>, <<"update", "search", "create">> }

\* the deploy request has published and has called the notifier
Notifying(r) == r.op = "deploy" /\ r.repo_data # EmptyDict /\ r.attempt > 0

\* C25: the updated flag in the notification payload and in the 200 response
\* of a deploy is true exactly when the request modified an existing
\* repository in place and false exactly when it created a new repository,
\* also when the selected update degraded to a creation.
C25_UpdatedFlagMatchesAction ==
    \A t \in Threads :
        Notifying(th[t]) =>
            /\ ModifiedInPlace(th[t]) \/ CreatedNew(th[t])
            /\ NotifyPayload(th[t])["updated"] = ModifiedInPlace(th[t])
            /\ NotifyPayload(th[t])["updated"] = ~CreatedNew(th[t])
            /\ Answered(th[t], 200) =>
                  /\ th[t].payload["updated"] = ModifiedInPlace(th[t])
                  /\ th[t].payload["updated"] = ~CreatedNew(th[t])

\* a round-2 request whose update degraded to a creation was answered with
\* updated = false
C25_Witness ==
    \E t \in Threads :
        /\ Notifying(th[t]) /\ Answered(th[t], 200)
        /\ th[t].branch = "update"
        /\ th[t].pub_calls = <<"update", "search", "create">>
        /\ th[t].payload["updated"] = FALSE
        /\ NotifyPayload(th[t])["updated"] = FALSE

\* ---- C26 ----------------------------------------------------------------
\* the number of digits that end the name
RECURSIVE DigitsAtEnd(_)
DigitsAtEnd(name) ==
    IF name # <<>> /\ IsDigits(<<name[Len(name)]>>)
    THEN 1 + DigitsAtEnd(DropLast(name, 1))
    ELSE 0

\* the repository name without one trailing "-<digits>"
WithoutTimestamp(name) ==
    LET k == DigitsAtEnd(name)
    IN  IF k >= 1 /\ Len(name) > k /\ name[Len(name) - k] = "-"
        THEN DropLast(name, k + 1)
        ELSE name

\* positions in the account's repositories, oldest first, whose name without
\* the timestamp is the base task id of the request
Matches(r) ==
    { i \in 1..Len(r.pre_repos) :
         WithoutTimestamp(r.pre_repos[i]) = StripSuffixOnce(r.data["task"].s) }

\* the update did not find the recorded repository by name, searched, and the
\* publisher returned a repository
Searched(r) ==
    /\ r.op = "deploy" /\ r.branch = "update"
    /\ Len(r.pub_calls) >= 2 /\ r.pub_calls[2] = "search"
    /\ r.repo_data # EmptyDict

\* C26: a round-2 update that did not find the recorded repository by name
\* updates the first repository of the newest-first listing whose name without
\* one trailing "-<digits>" is the base task id; it creates a repository only
\* when no name matches; the ledger entry then names the repository used.
C26_SearchThenCreate ==
    \A t \in Threads :
        Searched(th[t]) =>
            /\ Matches(th[t]) # {} =>
                  /\ th[t].pub_calls = <<"update", "search">>
                  /\ th[t].made = <<>>
                  /\ \E i \in Matches(th[t]) :
                        /\ th[t].repo_data["repo_name"] = th[t].pre_repos[i]
                        /\ \A j \in Matches(th[t]) : j <= i
            /\ Matches(th[t]) = {} =>
                  /\ th[t].pub_calls = <<"update", "search", "create">>
                  /\ th[t].made = <<th[t].repo_data["repo_name"]>>
            /\ th[t].pc \in {"stamp", "save", "notify", "done"} =>
                  RepoNameOf(deployment_state, th[t].key) = th[t].repo_data["repo_name"]

\* ---- C27 ----------------------------------------------------------------
\* the successful deploy has made its ledger assignments
LedgerWritten(r) ==
    r.op = "deploy" /\ r.repo_data # EmptyDict /\ r.pc \in {"save", "notify", "done"}

\* C27: after a successful deploy the timestamps of the entry match the
\* action: a request that created a repository has set created_at itself,
\* not earlier than the creation; a request that updated in place has left
\* created_at as it was and has set updated_at.
C27_TimestampsMatchAction ==
    \A t \in Threads :
        LedgerWritten(th[t]) =>
            LET entry == deployment_state[th[t].key]
            IN  /\ CreatedNew(th[t]) =>
                      /\ "created_at" \in th[t].assigned
                      /\ \E made_at \in 1..entry["created_at"] :
                            th[t].made = <<RepoName(th[t].data["task"].s, made_at)>>
                /\ ModifiedInPlace(th[t]) =>
                      /\ "created_at" \notin th[t].assigned
                      /\ entry["created_at"] = th[t].pre_state[th[t].key]["created_at"]
                      /\ "updated_at" \in th[t].assigned

\* ---- C28 ----------------------------------------------------------------
\* process_attachments or generate_app_code has been entered
Decoding(r) == r.attachments # <<>> \/ r.exc # "" \/ r.doc # ""

\* C28: a deploy request goes through normalization, attachment decoding,
\* generation, ledger lookup, publish, ledger write with flush, notification,
\* in this order: each step has happened only if the ones before it succeeded.
\* The publisher is not called unless normalization succeeded; the notifier is
\* called only after the entry was written and the flush attempted, and once
\* it has returned the request is answered, so it is called at most once.
C28_StepsInOrder ==
    \A t \in Requests :
        LET r == th[t]
        IN  /\ Decoding(r) => ( validate_request(r.body).ok /\ r.data = validate_request(r.body).data )
            /\ r.doc # "" => r.exc = ""
            /\ Looked(r) => r.doc \in {"generated", "fallback"}
            /\ r.pub_calls # <<>> => ( Looked(r) /\ validate_request(r.body).ok )
            /\ r.assigned # {} => ( r.pub_calls # <<>> /\ r.repo_data # EmptyDict )
            /\ r.flushed # "" => ( r.writes = 1 /\ "repo_name" \in r.assigned )
            /\ (r.pc = "notify" \/ r.attempt > 0 \/ r.notified # "") =>
                  /\ r.flushed # ""
                  /\ r.key \in DOMAIN deployment_state
                  /\ r.attempt <= max_retries
            /\ r.attempt > 0 => r.pc \in {"notify", "done"}
            /\ r.pc = "notify" => r.notified = ""
            /\ r.notified # "" => r.pc = "done"

\* a request with attachments went through every step and was notified at
\* the second attempt, after a flush that failed
C28_Witness ==
    \E t \in Requests :
        /\ Answered(th[t], 200)
        /\ th[t].attachments # <<>>
        /\ th[t].doc = "generated"
        /\ th[t].pub_calls # <<>>
        /\ th[t].writes = 1
        /\ th[t].flushed = "dump_failed"
        /\ th[t].attempt = 2
        /\ th[t].notified = "True"

\* ---- C29 ----------------------------------------------------------------
\* the round was sent as null or as a value int() does not accept
RoundUnusable(body) ==
    "round" \in DOMAIN body /\ ( body["round"] = JNull \/ ~IntOf(body["round"]).ok )

\* the round was sent as 1, 2, "1" or "2"
RoundGiven(body) ==
    "round" \in DOMAIN body
        /\ body["round"] \in { JInt(1), JInt(2), JStr(<<"1">>), JStr(<<"2">>) }

\* C29: when the round is sent as null or cannot be coerced, it is inferred
\* from the task id: 2 if the id holds a round-2 pattern (looked for first),
\* otherwise 1; when the round is 1 or 2, or the string "1" or "2", the
\* normalized round is that number whatever the task id holds.
C29_ExplicitRoundWins ==
    \A t \in Threads :
        ( Normalized(th[t]) /\ th[t].pc = "done" /\ IsStr(th[t].norm["task"]) ) =>
            /\ RoundUnusable(th[t].body) =>
                  th[t].norm["round"] =
                     IF HasPattern(th[t].norm["task"].s, Round2Patterns)
                     THEN JInt(2) ELSE JInt(1)
            /\ RoundGiven(th[t].body) =>
                  th[t].norm["round"] = JInt(IntOf(th[t].body["round"]).i)

\* round "1" sent with a round-2 task id stayed 1
C29_Witness ==
    \E t \in Threads :
        /\ Normalized(th[t]) /\ th[t].pc = "done"
        /\ th[t].body["task"] = JStr(CensusRound2)
        /\ "round" \in DOMAIN th[t].body /\ th[t].body["round"] = JStr(<<"1">>)
        /\ th[t].norm["round"] = JInt(1)

\* ---- C30 ----------------------------------------------------------------
\* the request was sent in the nested form and its normalization succeeded
NestedNormalized(r) ==
    /\ Normalized(r) /\ r.pc = "done"
    /\ r.status = 200
    /\ IsDict(r.body["task"])

\* C30: after the normalization of a request in the nested form, task is the
\* nested id; brief, checks and attachments are the nested values;
\* evaluation_url is the nested value if there is one, else the top-level
\* value if there is one, else the local default, and never the empty string.
C30_NestedTaskHoisted ==
    \A t \in Threads :
        NestedNormalized(th[t]) =>
            LET nested == th[t].body["task"].d
                norm   == th[t].norm
            IN  /\ "id" \in DOMAIN nested => norm["task"] = nested["id"]
                /\ norm["brief"] = nested["brief"]
                /\ norm["checks"] = NormalizeChecks([checks |-> nested["checks"]]).data["checks"]
                /\ norm["attachments"] = Get(nested, "attachments", JList(<<>>))
                /\ norm["evaluation_url"] =
                      IF "evaluation_url" \in DOMAIN nested THEN nested["evaluation_url"]
                      ELSE IF "evaluation_url" \in DOMAIN th[t].body
                           THEN th[t].body["evaluation_url"]
                           ELSE JStr(DefaultEvalUrl)
                /\ norm["evaluation_url"] # JStr(<<>>)

\* ---- C31 ----------------------------------------------------------------
\* the status each validation-only operation gives for a body
ValidateStatus(body) ==
    ValidateOnlyResponse(NewRequest("validate", body, FALSE), body).status
DryRunStatus(body) ==
    DeployReceive(NewRequest("deploy", body, TRUE), body, TRUE).status

\* C31: for every request body, /validate and the deploy operation run with
\* the dry-run flag answer with the same status, one of 200, 401, 400, 422
\* and 500.
C31_ValidateMirrorsDryRun ==
    \A t \in Threads :
        ( th[t].pc = "done" /\ ( th[t].op = "validate" \/ (th[t].op = "deploy" /\ th[t].dry) ) ) =>
            /\ th[t].status \in {200, 400, 401, 422, 500}
            /\ th[t].status = IF th[t].op = "validate"
                              THEN DryRunStatus(th[t].body)
                              ELSE ValidateStatus(th[t].body)

\* ---- C32 ----------------------------------------------------------------
\* the request is not a deploy whose publish call has succeeded
NoPublish(r) ==
    \/ r.op \in {"validate", "status", "health"}
    \/ r.op = "deploy" /\ ( r.dry \/ r.repo_data = EmptyDict )

\* C32: the ledger in memory and the ledger file are as the request found them
\* unless the request is a deploy whose publish call succeeded; and every key
\* the request found in the ledger is still in it.
C32_OnlyPublishedDeployWrites ==
    \A t \in Threads :
        /\ NoPublish(th[t]) =>
              /\ deployment_state = th[t].pre_state
              /\ state_file = th[t].pre_file
              /\ th[t].writes = 0
              /\ th[t].assigned = {}
        /\ th[t].op # "none" =>
              \A key \in DOMAIN th[t].pre_state : key \in DOMAIN deployment_state

\* a deploy that failed inside the publisher left a ledger with an entry, and
\* its file, as they were
C32_Witness ==
    \E t \in Requests :
        /\ th[t].pc = "done" /\ th[t].status = 500
        /\ th[t].pub_calls # <<>>
        /\ th[t].repo_data = EmptyDict
        /\ th[t].pre_state # EmptyLedger
        /\ deployment_state = th[t].pre_state
        /\ state_file = th[t].pre_file

\* ---- C33 ----------------------------------------------------------------
\* two round-2 deploy requests for one key, the first of which found no entry
\* under it
TwoRound2NoEntry ==
    /\ \A t \in Threads :
          th[t].op = "deploy" /\ Looked(th[t]) /\ RoundOf(th[t]) = JInt(2)
    /\ th[1].key = th[2].key
    /\ \E t \in Threads : ~HadEntry(th[t])

\* repositories the two requests have created
CreatedByBoth == Len(th[1].made) + Len(th[2].made)

\* C33 as stated: two concurrent round-2 deploy requests for a key without a
\* ledger entry create at most one repository between them.
C33_AtMostOneRepo == TwoRound2NoEntry => CreatedByBoth <= 1

\* C33 amended: each of the two requests creates at most one repository, so at
\* most two are created; both create one when both lookups come before both
\* writes, the sequence not being serialised. Once both have written, the one
\* ledger entry names the repository of the request that wrote the ledger
\* last.
C33_AtMostOnePerRequest ==
    TwoRound2NoEntry =>
        /\ \A t \in Threads : Len(th[t].made) <= 1
        /\ CreatedByBoth <= 2
        /\ BothSettled =>
              /\ th[1].key \in DOMAIN deployment_state
              /\ \E t \in Threads :
                    /\ th[t].wrote_last
                    /\ RepoNameOf(deployment_state, th[t].key) = th[t].repo_data["repo_name"]

\* both requests looked the key up before either wrote, and each created a
\* repository of its own
C33_Witness ==
    /\ TwoRound2NoEntry /\ BothSettled
    /\ \A t \in Threads : th[t].stored = EmptyDict /\ th[t].branch = "create"
    /\ \A t \in Threads : Len(th[t].made) = 1
    /\ th[1].made # th[2].made

\* ---- C34 ----------------------------------------------------------------
\* both deploy requests have published, written the ledger and left
\* save_deployment_state
BothFlushed ==
    \A t \in Threads :
        /\ th[t].op = "deploy" /\ th[t].repo_data # EmptyDict
        /\ th[t].flushed = "ok"
        /\ th[t].pc \in {"notify", "done"}

\* C34: once two concurrent successful deploy requests, for one key or for
\* two, have written and flushed, the ledger file is a well-formed document
\* holding exactly the entries of the ledger in memory.
C34_FileEqualsMemory ==
    BothFlushed => state_file = [kind |-> "ok", doc |-> deployment_state]

\* ---- C35 ----------------------------------------------------------------
\* the normalized email and the base task id of a request body
PairOf(body) ==
    LET data == validate_request(body).data
    IN  <<data["email"].s, BaseTaskName(data["task"].s)>>

\* C35: the deployment key is injective over (normalized email, base task
\* id): a request whose pair differs from that of another request does not
\* compute the other's key.
C35_KeyInjective ==
    \A t \in Requests :
        Looked(th[t]) =>
            \A body \in KeyBodies :
                PairOf(body) # PairOf(th[t].body) =>
                    DeploymentKey(PairOf(body)[1], PairOf(body)[2]) # th[t].key

\* ---- C36 ----------------------------------------------------------------
\* the round-2 request updated a repository in place
UpdatedInPlace(r) ==
    /\ r.op = "deploy" /\ r.repo_data # EmptyDict
    /\ Get(r.repo_data, "updated", FALSE)

\* C36: the repository a round-2 request updates in place is the one the
\* ledger recorded under the request's own key, also when it was found by the
\* name search; it is never a repository that a request with another
\* requester email created.
C36_UpdatesOwnRepoOnly ==
    \A t \in Threads :
        UpdatedInPlace(th[t]) =>
            /\ RoundOf(th[t]) = JInt(2)
            /\ th[t].stored["repo_name"] = th[t].repo_data["repo_name"]
            /\ \A u \in Threads \ {t} :
                  th[t].repo_data["repo_name"] \in RangeOf(th[u].made)
                      => th[u].data["email"] = th[t].data["email"]

\* ---- C37 ----------------------------------------------------------------
\* the deployment was published and answered 200
Deployed(r) ==
    /\ r.op = "deploy" /\ Answered(r, 200)
    /\ r.repo_data # EmptyDict

\* the status query that follows asks with the email and the task id of the
\* body that request r submitted
AsksFor(q, r) ==
    /\ q.op = "status"
    /\ "task" \in DOMAIN r.body /\ q.body["task_id"] = r.body["task"]
    /\ "email" \in DOMAIN r.body /\ q.body["email"] = r.body["email"]

\* C37: a status query that follows a successful deployment and carries the
\* email and the task id of the deployed request is answered 200 with the
\* entry that the deployment wrote.
C37_DeployThenStatus ==
    [][ \A t \in Threads :
            ( Deployed(th[t]) /\ AsksFor(th'[t], th[t]) ) =>
                /\ th'[t].status = 200
                /\ th'[t].payload["deployment_info"] = deployment_state[th[t].key]
      ]_vars

====
